---- MODULE Spec2Model ----
(***************************************************************************)
(* Verification model of the blockchain node monitoring core:              *)
(*   - cross-node consistency analysis                                     *)
(*       bin/blockchain_sync_verification_comprehensive.py                 *)
(*       scripts/monitoring/blockchain_sync_verification_advanced.py       *)
(*   - chain integrity / reorganization scan                               *)
(*       scripts/monitoring/chain_integrity_verifier.py                    *)
(*   - alert recording with cooldown                                       *)
(*   - the monitoring loops (scheduler)                                    *)
(*       scripts/monitoring/monitor_sync_realtime.py, mev-rpc-monitor.py   *)
(*                                                                         *)
(* Numbers returned by RPC calls are modelled after hex parsing.  Python   *)
(* floats that are only compared with integer thresholds are modelled by   *)
(* their floor.  Python None for a block number is the sentinel NoBlock.   *)
(* An optional dict entry is a sequence of length 0 or 1.                  *)
(***************************************************************************)
EXTENDS Integers, Sequences, FiniteSets, TLC

VARIABLES
    \* ---- configuration (fixed during a run) ----
    program,            \* the script that runs: "comprehensive" | "realtime" |
                        \* "advanced" | "integrity" | "mevrpc" | "basic" |
                        \* "dashboard"
    tolerance_blocks,   \* VerificationConfig.tolerance_blocks / tolerance argument
    \* ---- comprehensive verifier: one verify_cross_node_consistency call ----
    vpc,                \* position of the main coroutine
    task_pc,            \* position of each get_node_sync_status task
    status,             \* the SyncStatus object each task is filling
    scored,             \* nodes whose calculate_health_score has run in this call
    await_idx,          \* index of the task the main coroutine awaits next
    node_statuses,      \* dict node_type -> SyncStatus collected by the await loop
    results,            \* <<>> or <<report>> returned by the call
    \* ---- advanced verifier ----
    nodes,              \* self.nodes: name -> <<>> or <<NodeInfo>>
    adv_report,         \* <<>> or <<report>> of validate_cross_node_consistency
    adv_fresh,          \* names stored by the most recent verify_sync_status call
    adv_raised,         \* the most recent verify_sync_status call raised to its caller
    \* ---- chain integrity verifier ----
    local_hash,         \* height -> block hash served by the node ("" = none)
    ref_hash,           \* height -> block hash served by the reference ("" = none)
    cache,              \* ChainIntegrityVerifier.cache
    integrity,          \* <<>> or <<ChainIntegrityResult>> of the last verify_chain_integrity
    reorg,              \* <<>> or <<result>> of the last detect_reorganizations call
    \* ---- alerting ----
    now,                \* time.time(), seconds
    alert_cooldowns,    \* self.alert_cooldowns: key -> last fired time
    alerts_db,          \* rows of the alerts table (store_alert)
    notified,           \* alerts handed to send_notifications
    alert_history,      \* BlockchainSyncVerifier.alert_history (comprehensive)
    alert_counts,       \* RealTimeMonitor.alert_counts
    \* ---- monitoring loop ----
    sched_state,        \* IDLE | RUNNING | SLEEPING | STOPPED
    running,            \* self.running / self.monitoring
    end_time,           \* end of the session
    iteration,          \* iterations started
    iter_failed,        \* an error was raised inside the current iteration
    wake_at,            \* time at which the current sleep ends
    sleep_len,          \* length of the sleep entered last
    errors_logged,      \* number of logger.error calls of the loop
    crashed,            \* the loop was left by an uncaught exception
    stop_seen,          \* "none", or the scheduler state in which the first stop
                        \* signal was delivered
    shutdowns,          \* times the step after the loop has run
    \* ---- one collector call on one node ----
    col_in,             \* what the probes of the node answer
    col_out,            \* <<>> or <<status>> returned by the collector
    \* ---- analysis and check_alerts on one snapshot set ----
    an_statuses,        \* node_type -> SyncStatus, the snapshot set
    alert_thresholds,   \* shape of VerificationConfig.alert_thresholds
    reports,            \* the reports of successive analyses of an_statuses
    alerts_out,         \* <<>> or <<outcome>> of check_alerts on the first report
    \* ---- one reference lookup ----
    ref_sources,        \* what the reference sources answer at present
    lookup_out,         \* <<>> or <<outcome>> of the last reference lookup
    \* ---- the most recent trigger_alert call ----
    last_call,          \* <<>> or <<what the call was given and what it did>>
    \* ---- trailing histories ----
    performance_history, \* RealTimeMonitor.performance_history
    historical_data,    \* MEVDashboard.historical_data: references to objects
    heap,               \* object -> the metrics it holds at present
    collected           \* snapshots collected so far

cfgVars == <<program, tolerance_blocks>>
compVars == <<vpc, task_pc, status, scored, await_idx, node_statuses, results>>
advVars == <<nodes, adv_report, adv_fresh, adv_raised>>
integVars == <<local_hash, ref_hash, cache, integrity, reorg>>
alertVars == <<alert_cooldowns, alerts_db, notified, alert_history, alert_counts>>
schedVars == <<sched_state, running, end_time, iteration, iter_failed,
               wake_at, sleep_len, errors_logged, crashed, stop_seen, shutdowns>>
collVars == <<col_in, col_out>>
analysisVars == <<an_statuses, alert_thresholds, reports, alerts_out>>
lookupVars == <<ref_sources, lookup_out>>
histVars == <<performance_history, historical_data, heap, collected>>
auxVars == <<lookupVars, last_call, histVars>>
unitVars == <<collVars, analysisVars, auxVars>>
vars == <<cfgVars, compVars, advVars, integVars, now, alertVars, schedVars, unitVars>>

(***************************************************************************)
(* Bounds                                                                  *)
(***************************************************************************)
MaxDivergence == 5
MaxHeight == 12
MaxTime == 140
MaxAlerts == 3
MaxAlertTime == 1000
MaxAnalysisTime == 1
MaxLookupTime == 300

(***************************************************************************)
(* Small helpers                                                           *)
(***************************************************************************)
Min(a, b) == IF a <= b THEN a ELSE b
Max(a, b) == IF a >= b THEN a ELSE b
SetMax(S) == CHOOSE x \in S : \A y \in S : y <= x
SetMin(S) == CHOOSE x \in S : \A y \in S : x <= y
NoBlock == -1

(***************************************************************************)
(* Configuration and probe answers                                         *)
(***************************************************************************)
\* VerificationConfig.node_types, in configured order (two of the defaults).
NodeTypeList == <<"geth", "erigon">>
NodeTypes == {NodeTypeList[i] : i \in 1..Len(NodeTypeList)}

\* Block heights a node may report: 0 (no usable data) or a height near 100.
BlockValues == {0} \cup {100 + d : d \in ({0} \cup ((MaxDivergence - 1)..MaxDivergence))}
\* tolerance_blocks as configured (the loader accepts any integer).
ToleranceValues == {0, 3, 4, 5}
\* alert_thresholds as load_config builds it: keyed by setting (min_peers,
\* max_cpu, ...), each setting keyed by tier.
DefaultAlertThresholds == "by_setting"
\* Answers of the external reference (0 = unavailable).
ReferenceValues == {0, 100 + MaxDivergence, 100 + MaxDivergence + 11}
ServiceStates == {"active", "inactive"}
BlockHashes == {"0xaa", "0xbb"}
PeerValues == {3, 30}

\* What get_rpc_sync_data can return: <<>> (None) or <<sync_data>>.
SyncDataValues ==
    {[sync_status |-> "fully_synced", current_block |-> b, highest_block |-> b,
      peer_count |-> p, block_hash |-> <<h>>] :
        b \in BlockValues, p \in PeerValues, h \in BlockHashes}
    \cup
    {[sync_status |-> "syncing", current_block |-> b, highest_block |-> hb,
      peer_count |-> p, block_hash |-> <<>>] :
        b \in BlockValues \ {0}, hb \in {0, 100 + MaxDivergence}, p \in PeerValues}
RpcAnswers == {<<>>} \cup {<<d>> : d \in SyncDataValues}

(***************************************************************************)
(* Comprehensive verifier: SyncStatus, collector, health score             *)
(***************************************************************************)
\* SyncStatus as initialised at the top of get_node_sync_status.
DefaultStatus ==
    [service_status |-> "unknown", sync_status |-> "unknown", sync_progress |-> 0,
     current_block |-> 0, highest_block |-> 0, peer_count |-> 0,
     cpu_usage |-> 0, memory_usage |-> 0, health_score |-> 0,
     issues |-> <<>>, response_time |-> 0, block_hash |-> <<>>]
\* response_time is kept in milliseconds.

\* The status substituted when awaiting a task raises.
ErrorStatus ==
    [service_status |-> "error", sync_status |-> "error", sync_progress |-> 0,
     current_block |-> 0, highest_block |-> 0, peer_count |-> 0,
     cpu_usage |-> 0, memory_usage |-> 0, health_score |-> 0,
     issues |-> <<"Failed to get status">>, response_time |-> 0, block_hash |-> <<>>]

\* min(100.0, current / highest * 100), floored; left at 0 when highest is 0.
SyncProgress(current, highest) ==
    IF highest > 0 THEN Min(100, (current * 100) \div highest) ELSE 0

\* min(30, 30 - sync_progress * 0.3) for a syncing node, rounded up so that the
\* score it is subtracted from is floored.
SyncPenalty(s) ==
    IF s.highest_block > 0 /\ s.current_block <= s.highest_block
    THEN 30 - ((30 * s.current_block) \div s.highest_block)
    ELSE IF s.highest_block > 0 THEN 0 ELSE 30

calculate_health_score_NoFloor(s) ==
    LET svc == IF s.service_status # "active" THEN 50 ELSE 0
        syn == IF s.sync_status = "syncing" THEN SyncPenalty(s)
               ELSE IF s.sync_status \in {"error", "unknown"} THEN 40 ELSE 0
        peer == IF s.peer_count < 5 THEN 20 ELSE IF s.peer_count < 15 THEN 10 ELSE 0
        cpu == IF s.cpu_usage > 90 THEN 15 ELSE IF s.cpu_usage > 80 THEN 10 ELSE 0
        mem == IF s.memory_usage > 30 THEN 15 ELSE IF s.memory_usage > 20 THEN 10 ELSE 0
        rt == IF s.response_time > 5000 THEN 20
              ELSE IF s.response_time > 2000 THEN 10 ELSE 0
        iss == Len(s.issues) * 5
    IN  100 - svc - syn - peer - cpu - mem - rt - iss
\* calculate_health_score, floored to an integer.
calculate_health_score(s) ==
    LET svc == IF s.service_status # "active" THEN 50 ELSE 0
        syn == IF s.sync_status = "syncing" THEN SyncPenalty(s)
               ELSE IF s.sync_status \in {"error", "unknown"} THEN 40 ELSE 0
        peer == IF s.peer_count < 5 THEN 20 ELSE IF s.peer_count < 15 THEN 10 ELSE 0
        cpu == IF s.cpu_usage > 90 THEN 15 ELSE IF s.cpu_usage > 80 THEN 10 ELSE 0
        mem == IF s.memory_usage > 30 THEN 15 ELSE IF s.memory_usage > 20 THEN 10 ELSE 0
        rt == IF s.response_time > 5000 THEN 20
              ELSE IF s.response_time > 2000 THEN 10 ELSE 0
        iss == Len(s.issues) * 5
    IN  Max(0, 100 - svc - syn - peer - cpu - mem - rt - iss)

\* The fields get_node_sync_status copies from sync_data.
WithSyncData(s, ans) ==
    IF ans = <<>> THEN s
    ELSE LET d == ans[1] IN
         [s EXCEPT !.sync_status = d.sync_status,
                   !.current_block = d.current_block,
                   !.highest_block = d.highest_block,
                   !.peer_count = d.peer_count,
                   !.block_hash = d.block_hash,
                   !.sync_progress = SyncProgress(d.current_block, d.highest_block)]

\* cpu_usage (percent) and memory_usage (GB) as sampled by update_system_metrics,
\* and time.time() - start_time at the end of the collection in milliseconds:
\* an idle host and a loaded one.
MetricSamples == {[cpu |-> 0, mem |-> 0, elapsed |-> 50],
                  [cpu |-> 95, mem |-> 31, elapsed |-> 3000]}

(***************************************************************************)
(* Comprehensive verifier: consistency analysis                            *)
(***************************************************************************)
IsConsistent_Strict(block_diff, tol) == block_diff < tol
\* block_diff <= self.config.tolerance_blocks
IsConsistent(block_diff, tol) == block_diff <= tol

IsLagging_Inclusive(block_diff_from_max, tol) == block_diff_from_max >= tol
\* block_diff_from_max > self.config.tolerance_blocks
IsLagging(block_diff_from_max, tol) == block_diff_from_max > tol

\* blocks = [s.current_block for s in node_statuses.values() if s.current_block > 0]
UsableBlocks(ns) == {ns[n].current_block : n \in {m \in DOMAIN ns : ns[m].current_block > 0}}

\* check_reorganizations
check_reorganizations(ns) ==
    LET cmp == {n \in DOMAIN ns : ns[n].block_hash # <<>> /\ ns[n].current_block > 0}
        hashes == {ns[n].block_hash[1] : n \in cmp}
    IN  IF Cardinality(cmp) < 2
        THEN [status |-> "insufficient_data", unique_hashes |-> 0]
        ELSE [status |-> IF Cardinality(hashes) = 1 THEN "consistent" ELSE "inconsistent",
              unique_hashes |-> Cardinality(hashes)]

\* The part of verify_cross_node_consistency after the statuses are collected.
\* ns: node_type -> SyncStatus; reference_block: get_reference_block_number.
ConsistencyReport(ns, tol, reference_block) ==
    IF DOMAIN ns = {} THEN [error |-> "No node status available"]
    ELSE IF UsableBlocks(ns) = {} THEN [error |-> "No valid block numbers found"]
    ELSE
      LET max_block == SetMax(UsableBlocks(ns))
          min_block == SetMin(UsableBlocks(ns))
          block_diff == max_block - min_block
      IN [error |-> "",
          summary |-> [total_nodes |-> Cardinality(DOMAIN ns),
                       highest_block |-> max_block,
                       lowest_block |-> min_block,
                       block_difference |-> block_diff,
                       tolerance_blocks |-> tol,
                       consistent |-> IsConsistent(block_diff, tol)],
          nodes |-> [n \in DOMAIN ns |->
                       [current_block |-> ns[n].current_block,
                        health_score |-> ns[n].health_score,
                        sync_status |-> ns[n].sync_status,
                        sync_progress |-> ns[n].sync_progress,
                        peer_count |-> ns[n].peer_count,
                        rpc_responsive |-> ns[n].response_time > 0,
                        response_time |-> ns[n].response_time,
                        lagging |-> IsLagging(max_block - ns[n].current_block, tol),
                        blocks_behind |-> max_block - ns[n].current_block,
                        issues |-> ns[n].issues,
                        service_status |-> ns[n].service_status,
                        block_hash |-> ns[n].block_hash]],
          reference |-> IF reference_block > 0
                        THEN <<[external_block |-> reference_block,
                                local_max_diff |-> reference_block - max_block,
                                reference_consistent |-> (reference_block - max_block) <= 10]>>
                        ELSE <<>>,
          reorg_check |-> IF Cardinality({n \in DOMAIN ns : ns[n].block_hash # <<>>}) > 1
                          THEN <<check_reorganizations(ns)>>
                          ELSE <<>>]

IsError(rep) == rep.error # ""

\* ---- one call of verify_cross_node_consistency ----

\* asyncio.create_task for every node type; the caller then starts awaiting.
StartVerify ==
    /\ program = "comprehensive"
    /\ vpc \in {"idle", "returned"}
    /\ vpc' = "awaiting"
    /\ task_pc' = [n \in NodeTypes |-> "created"]
    /\ status' = [n \in NodeTypes |-> DefaultStatus]
    /\ scored' = {}
    /\ await_idx' = 1
    /\ node_statuses' = [n \in NodeTypes |-> <<>>]
    /\ results' = <<>>
    /\ UNCHANGED <<cfgVars, unitVars, advVars, integVars, now, alertVars, schedVars>>

\* get_node_sync_status up to the service check.
TaskService(n, svc) ==
    /\ vpc = "awaiting"
    /\ task_pc[n] = "created"
    /\ IF svc # "active"
       THEN /\ status' = [status EXCEPT ![n].service_status = svc,
                                        ![n].issues = Append(@, "Service not running")]
            /\ task_pc' = [task_pc EXCEPT ![n] = "done"]
       ELSE /\ status' = [status EXCEPT ![n].service_status = svc]
            /\ task_pc' = [task_pc EXCEPT ![n] = "rpc"]
    /\ UNCHANGED <<vpc, scored, await_idx, node_statuses, results>>
    /\ UNCHANGED <<cfgVars, unitVars, advVars, integVars, now, alertVars, schedVars>>

\* get_node_sync_status from the RPC answer to the return: sync data, system
\* metrics, health score, response time.  The score is computed before
\* response_time is assigned.
RpcPhase(s, ans, m) ==
    LET s1 == WithSyncData(s, ans)
        s2 == [s1 EXCEPT !.cpu_usage = m.cpu, !.memory_usage = m.mem]
        s3 == [s2 EXCEPT !.health_score = calculate_health_score(s2)]
    IN  [s3 EXCEPT !.response_time = m.elapsed]

\* The task of node n runs from the RPC answer to its return (no suspension
\* point of another outcome in between).
TaskRpc(n, ans, m) ==
    /\ vpc = "awaiting"
    /\ task_pc[n] = "rpc"
    /\ status' = [status EXCEPT ![n] = RpcPhase(status[n], ans, m)]
    /\ scored' = scored \cup {n}
    /\ task_pc' = [task_pc EXCEPT ![n] = "done"]
    /\ UNCHANGED <<vpc, await_idx, node_statuses, results>>
    /\ UNCHANGED <<cfgVars, unitVars, advVars, integVars, now, alertVars, schedVars>>

\* An exception inside the try block of get_node_sync_status: it is turned
\* into an issue and the status collected so far is returned.
TaskCaught(n) ==
    /\ vpc = "awaiting"
    /\ task_pc[n] = "rpc"
    /\ status' = [status EXCEPT ![n].issues = Append(@, "Error getting status")]
    /\ task_pc' = [task_pc EXCEPT ![n] = "done"]
    /\ UNCHANGED <<vpc, scored, await_idx, node_statuses, results>>
    /\ UNCHANGED <<cfgVars, unitVars, advVars, integVars, now, alertVars, schedVars>>

\* The task ends with an exception that get_node_sync_status does not catch.
TaskRaise(n) ==
    /\ vpc = "awaiting"
    /\ task_pc[n] = "created"
    /\ task_pc' = [task_pc EXCEPT ![n] = "raised"]
    /\ UNCHANGED <<vpc, status, scored, await_idx, node_statuses, results>>
    /\ UNCHANGED <<cfgVars, unitVars, advVars, integVars, now, alertVars, schedVars>>

\* `status = await task` can return only when the task has finished.
TaskFinished(n) == task_pc[n] \in {"done", "raised"}

\* One round of the loop `for node_type, task in tasks: status = await task`.
AwaitTask ==
    /\ vpc = "awaiting"
    /\ await_idx <= Len(NodeTypeList)
    /\ LET n == NodeTypeList[await_idx] IN
         /\ TaskFinished(n)
         /\ node_statuses' = [node_statuses EXCEPT ![n] =
                IF task_pc[n] = "raised" THEN <<ErrorStatus>> ELSE <<status[n]>>]
    /\ await_idx' = await_idx + 1
    /\ UNCHANGED <<vpc, task_pc, status, scored, results>>
    /\ UNCHANGED <<cfgVars, unitVars, advVars, integVars, now, alertVars, schedVars>>

\* The rest of verify_cross_node_consistency, after the await loop.
Analyze(reference_block) ==
    /\ vpc = "awaiting"
    /\ await_idx > Len(NodeTypeList)
    /\ results' = <<ConsistencyReport([n \in NodeTypes |-> node_statuses[n][1]],
                                      tolerance_blocks, reference_block)>>
    /\ vpc' = "returned"
    /\ UNCHANGED <<task_pc, status, scored, await_idx, node_statuses>>
    /\ UNCHANGED <<cfgVars, unitVars, advVars, integVars, now, alertVars, schedVars>>

(***************************************************************************)
(* Advanced verifier: NodeInfo, verify_sync_status,                        *)
(* validate_cross_node_consistency                                         *)
(***************************************************************************)
\* get_node_configurations: the node names selected by a node_type filter.
AdvNames == {"Erigon", "Geth"}
get_node_configurations(node_type) ==
    (IF node_type \in {"all", "erigon"} THEN {"Erigon"} ELSE {})
    \cup (IF node_type \in {"all", "geth"} THEN {"Geth"} ELSE {})
NodeTypeFilters == {"all", "erigon", "geth"}

NoProgress == -1

\* What the probes of verify_single_node can answer for one node.
\*   service: check_service_status; rpc: check_rpc_connectivity;
\*   sync: <<>> (eth_syncing failed) or <<answer>>, where current = NoBlock
\*   stands for a failed eth_blockNumber after eth_syncing = false.
AdvSyncAnswers ==
    {<<>>}
    \cup {<<[syncing |-> FALSE, current |-> b, highest |-> 0]>> :
              b \in BlockValues \cup {NoBlock}}
    \cup {<<[syncing |-> TRUE, current |-> 100, highest |-> 100 + MaxDivergence]>>,
          <<[syncing |-> TRUE, current |-> 0, highest |-> 0]>>,
          <<[syncing |-> TRUE, current |-> 100 + MaxDivergence, highest |-> 100]>>}
AdvAnswers ==
    {[service |-> "stopped", rpc |-> FALSE, sync |-> <<>>, peers |-> 0,
      memory_mb |-> 0, cpu |-> 0],
     [service |-> "running", rpc |-> FALSE, sync |-> <<>>, peers |-> 0,
      memory_mb |-> 8000, cpu |-> 50]}
    \cup {[service |-> "running", rpc |-> TRUE, sync |-> sy, peers |-> 30,
           memory_mb |-> 8000, cpu |-> 50] : sy \in AdvSyncAnswers}
    \cup {[service |-> "running", rpc |-> TRUE,
           sync |-> <<[syncing |-> FALSE, current |-> 100, highest |-> 0]>>,
           peers |-> 3, memory_mb |-> 0, cpu |-> 0]}

\* get_sync_status: the triple <<sync_progress, current_block, highest_block>>.
get_sync_status(sy) ==
    IF sy = <<>> THEN <<NoProgress, NoBlock, NoBlock>>
    ELSE IF ~sy[1].syncing THEN <<100, sy[1].current, NoBlock>>
    ELSE <<IF sy[1].highest > 0
           THEN (sy[1].current * 100) \div sy[1].highest
           ELSE NoProgress,
           sy[1].current, sy[1].highest>>

peers_threshold == 25

\* calculate_node_health_score, floored to an integer.
calculate_node_health_score(node) ==
    LET svc == IF node.status = "running" THEN 25 ELSE 0
        rpc == IF node.rpc_responsive THEN 25 ELSE 0
        \* sync_progress >= 99.5 is sync_progress >= 100 for the floored value
        \* only when the exact value is; the answers above give exact values
        \* at 100 and values below 99 otherwise.
        syn == IF node.sync_progress = NoProgress THEN 0
               ELSE IF node.sync_progress >= 100 THEN 30
               ELSE (node.sync_progress * 30) \div 100
        peer == IF node.peers >= peers_threshold THEN 10
                ELSE (node.peers * 10) \div peers_threshold
        mem == IF node.memory_mb > 0 /\ node.memory_mb < 16000 THEN 5 ELSE 0
        cpu == IF node.cpu_usage_percent > 0 /\ node.cpu_usage_percent < 80 THEN 5 ELSE 0
    IN  Min(100, svc + rpc + syn + peer + mem + cpu)

\* verify_single_node: the NodeInfo built from the probe answers.
verify_single_node(a) ==
    LET sy == IF a.rpc THEN get_sync_status(a.sync) ELSE <<NoProgress, NoBlock, NoBlock>>
        n0 == [status |-> a.service,
               rpc_responsive |-> a.rpc,
               sync_progress |-> sy[1],
               current_block |-> sy[2],
               highest_block |-> sy[3],
               peers |-> IF a.rpc THEN a.peers ELSE 0,
               memory_mb |-> IF a.service = "running" THEN a.memory_mb ELSE 0,
               cpu_usage_percent |-> IF a.service = "running" THEN a.cpu ELSE 0,
               health_score |-> 0]
    IN  [n0 EXCEPT !.health_score = calculate_node_health_score(n0)]

\* verify_sync_status(node_type): every selected node is probed in turn and
\* stored in self.nodes; entries of nodes that are not selected stay.  The
\* report of an earlier validation belongs to the earlier run and is dropped.
\* This is the run in which NodeInfo(...) of verify_single_node constructs.
verify_sync_status(node_type, answers) ==
    /\ program = "advanced"
    /\ nodes' = [name \in AdvNames |->
                    IF name \in get_node_configurations(node_type)
                    THEN <<verify_single_node(answers[name])>>
                    ELSE nodes[name]]
    /\ adv_fresh' = get_node_configurations(node_type)
    /\ adv_raised' = FALSE
    /\ adv_report' = <<>>
    /\ UNCHANGED <<cfgVars, unitVars, compVars, integVars, now, alertVars, schedVars>>

\* verify_sync_status(node_type) as the file is shipped: verify_single_node
\* passes network= to NodeInfo(...), a keyword the dataclass does not declare,
\* so the constructor raises TypeError for the first selected node.  Nothing
\* catches it in verify_single_node or verify_sync_status: no NodeInfo is
\* stored and the exception reaches the caller.
verify_sync_status_raises(node_type) ==
    /\ program = "advanced"
    /\ get_node_configurations(node_type) # {}
    /\ adv_fresh' = {}
    /\ adv_raised' = TRUE
    /\ adv_report' = <<>>
    /\ UNCHANGED nodes
    /\ UNCHANGED <<cfgVars, unitVars, compVars, integVars, now, alertVars, schedVars>>

\* block_numbers of validate_cross_node_consistency: the nodes of self.nodes
\* whose current_block is not None.
AdvBlockNumbers(nd) ==
    {name \in DOMAIN nd : nd[name] # <<>> /\ nd[name][1].current_block # NoBlock}

\* block_diff <= tolerance
AdvConsistent(block_diff, tol) == block_diff <= tol

\* diff > tolerance
AdvLagging(diff, tol) == diff > tol

\* validate_cross_node_consistency as a function of self.nodes.
ValidateReport(nd, tol) ==
    IF AdvBlockNumbers(nd) = {}
    THEN [status |-> "error", message |-> "No block data available"]
    ELSE
      LET bn == [name \in AdvBlockNumbers(nd) |-> nd[name][1].current_block]
          max_block == SetMax({bn[name] : name \in DOMAIN bn})
          min_block == SetMin({bn[name] : name \in DOMAIN bn})
          block_diff == max_block - min_block
      IN [status |-> "ok",
          tolerance |-> tol,
          max_block |-> max_block,
          min_block |-> min_block,
          block_difference |-> block_diff,
          nodes_consistent |-> AdvConsistent(block_diff, tol),
          block_numbers |-> bn,
          lagging_nodes |-> {[name |-> name, block_number |-> bn[name],
                              lag_blocks |-> max_block - bn[name]] :
                                name \in {m \in DOMAIN bn : AdvLagging(max_block - bn[m], tol)}},
          analysis |-> IF block_diff = 0 THEN "perfect_consistency"
                       ELSE IF block_diff <= tol THEN "acceptable_consistency"
                       ELSE IF block_diff <= 20 THEN "minor_divergence"
                       ELSE "major_divergence"]

validate_cross_node_consistency ==
    /\ program = "advanced"
    /\ adv_report' = <<ValidateReport(nodes, tolerance_blocks)>>
    /\ UNCHANGED <<nodes, adv_fresh, adv_raised>>
    /\ UNCHANGED <<cfgVars, unitVars, compVars, integVars, now, alertVars, schedVars>>

(***************************************************************************)
(* Chain integrity verifier                                                *)
(***************************************************************************)
Heights == 0..MaxHeight

cache_timeout == 300
max_check_depth == 10

\* self.cache: the entry "reference_block_<network>" and the entries
\* "block_hash_<network>_<height>", each <<>> (absent) or <<[value, timestamp]>>.
EmptyCache == [reference_block |-> <<>>, block_hash |-> [h \in Heights |-> <<>>]]

\* A cache entry is used while time.time() - timestamp < cache_timeout.
CacheFresh(entry, t) == entry # <<>> /\ t - entry[1].timestamp < cache_timeout

\* get_block_hash: the hash the node serves for a height ("" when it has none).
get_block_hash(lh, h) == lh[h]

\* get_reference_block_hash: returns [hash, cache]; hash "" stands for None.
get_reference_block_hash(c, rh, h, t) ==
    IF CacheFresh(c.block_hash[h], t)
    THEN [hash |-> c.block_hash[h][1].value, cache |-> c]
    ELSE IF rh[h] # ""
    THEN [hash |-> rh[h],
          cache |-> [c EXCEPT !.block_hash[h] = <<[value |-> rh[h], timestamp |-> t]>>]]
    ELSE [hash |-> "", cache |-> c]

HashesDiffer_Always(lhash, rhash) == TRUE
\* if local_hash != reference_hash
HashesDiffer(lhash, rhash) == lhash # rhash

\* return reorg_depth > 0, reorg_depth
ReorgDetected(reorg_depth) == reorg_depth > 0

\* The last distance of the loop `for i in range(1, min(max_check_depth, current_block))`.
ScanLast(current_block) == Min(max_check_depth, current_block) - 1

\* The loop body of detect_reorganizations from distance i on:
\* returns [depth, cache].
RECURSIVE ScanFrom(_, _, _, _, _, _)
ScanFrom(i, current_block, c, lh, rh, t) ==
    IF i > ScanLast(current_block) THEN [depth |-> 0, cache |-> c]
    ELSE LET check_block == current_block - i
             lhash == get_block_hash(lh, check_block)
         IN  IF lhash = "" THEN ScanFrom(i + 1, current_block, c, lh, rh, t)
             ELSE LET r == get_reference_block_hash(c, rh, check_block, t) IN
                  IF r.hash = "" THEN ScanFrom(i + 1, current_block, r.cache, lh, rh, t)
                  ELSE IF HashesDiffer(lhash, r.hash) THEN [depth |-> i, cache |-> r.cache]
                  ELSE ScanFrom(i + 1, current_block, r.cache, lh, rh, t)

\* detect_reorganizations: [reorg_detected, reorg_depth, cache].
DetectReorganizations(current_block, c, lh, rh, t) ==
    LET r == ScanFrom(1, current_block, c, lh, rh, t) IN
    [reorg_detected |-> ReorgDetected(r.depth), reorg_depth |-> r.depth, cache |-> r.cache]

\* get_reference_block_number: sources tried in order (Etherscan,
\* Beaconcha.in, Infura); src.etherscan_raises: get_etherscan_block raises,
\* src.etherscan / src.beaconchain: the numbers answered, get_infura_block
\* always answers 0.  Returns [block, cache].
get_reference_block_number(c, src, t) ==
    IF CacheFresh(c.reference_block, t)
    THEN [block |-> c.reference_block[1].value, cache |-> c]
    ELSE LET first == IF ~src.etherscan_raises /\ src.etherscan > 0 THEN src.etherscan
                      ELSE IF src.beaconchain > 0 THEN src.beaconchain
                      ELSE 0
         IN  IF first > 0
             THEN [block |-> first,
                   cache |-> [c EXCEPT !.reference_block =
                                 <<[value |-> first, timestamp |-> t]>>]]
             ELSE [block |-> 0, cache |-> c]

\* validate_state_root: state_root.startswith('0x') and len(state_root) == 66
validate_state_root(sr) == sr.prefix_0x /\ sr.length = 66

\* ChainIntegrityResult as constructed at the top of verify_chain_integrity.
\* confidence_score is kept as an integer (all penalties are whole numbers).
NewResult ==
    [is_valid |-> FALSE, block_diff |-> 0, hash_matches |-> FALSE,
     reorg_detected |-> FALSE, reorg_depth |-> 0, chain_work_valid |-> TRUE,
     state_root_valid |-> TRUE, issues |-> <<>>, reference_block |-> 0,
     local_block |-> 0, confidence_score |-> 0]

BlockDiffVerdict_NoIssue(res, block_diff) ==
    IF block_diff <= 5
    THEN [res EXCEPT !.block_diff = block_diff, !.is_valid = TRUE,
                     !.confidence_score = 100]
    ELSE IF block_diff <= 20
    THEN [res EXCEPT !.block_diff = block_diff, !.is_valid = TRUE,
                     !.confidence_score = 80,
                     !.issues = Append(@, "Node lagging")]
    ELSE [res EXCEPT !.block_diff = block_diff, !.is_valid = FALSE,
                     !.confidence_score = 0]
\* The block-difference verdict of verify_chain_integrity.
BlockDiffVerdict(res, block_diff) ==
    IF block_diff <= 5
    THEN [res EXCEPT !.block_diff = block_diff, !.is_valid = TRUE,
                     !.confidence_score = 100]
    ELSE IF block_diff <= 20
    THEN [res EXCEPT !.block_diff = block_diff, !.is_valid = TRUE,
                     !.confidence_score = 80,
                     !.issues = Append(@, "Node lagging")]
    ELSE [res EXCEPT !.block_diff = block_diff, !.is_valid = FALSE,
                     !.confidence_score = 0,
                     !.issues = Append(@, "Node significantly behind")]

HashPenalty == 20
ChainWorkPenalty == 15
StateRootPenalty == 10

\* The confidence after one failed check.
Penalise(confidence, penalty) == confidence - penalty

perform_comprehensive_integrity_checks_Invalidates(res, c, lh, rh, local_block, blk, t) ==
    LET lhash == get_block_hash(lh, local_block)
        r == get_reference_block_hash(c, rh, local_block, t)
        compared == lhash # "" /\ r.hash # ""
        r1 == IF compared
              THEN IF lhash = r.hash
                   THEN [res EXCEPT !.hash_matches = TRUE]
                   ELSE [res EXCEPT !.hash_matches = FALSE, !.is_valid = FALSE,
                             !.issues = Append(@, "Block hash mismatch"),
                             !.confidence_score = Penalise(@, HashPenalty)]
              ELSE res
        r2 == IF blk.structure_ok
              THEN [r1 EXCEPT !.chain_work_valid = TRUE]
              ELSE [r1 EXCEPT !.chain_work_valid = FALSE,
                        !.issues = Append(@, "Chain work verification failed"),
                        !.confidence_score = Penalise(@, ChainWorkPenalty)]
        r3 == IF local_block > 0
              THEN IF validate_state_root(blk.state_root)
                   THEN [r2 EXCEPT !.state_root_valid = TRUE]
                   ELSE [r2 EXCEPT !.state_root_valid = FALSE,
                             !.issues = Append(@, "State root validation failed"),
                             !.confidence_score = Penalise(@, StateRootPenalty)]
              ELSE r2
    IN  [res |-> r3, cache |-> r.cache]
\* perform_comprehensive_integrity_checks: returns [res, cache].
\* blk.structure_ok: all required fields present (verify_chain_work);
\* blk.state_root: the stateRoot field.
perform_comprehensive_integrity_checks(res, c, lh, rh, local_block, blk, t) ==
    LET lhash == get_block_hash(lh, local_block)
        r == get_reference_block_hash(c, rh, local_block, t)
        compared == lhash # "" /\ r.hash # ""
        r1 == IF compared
              THEN IF lhash = r.hash
                   THEN [res EXCEPT !.hash_matches = TRUE]
                   ELSE [res EXCEPT !.hash_matches = FALSE,
                             !.issues = Append(@, "Block hash mismatch"),
                             !.confidence_score = Penalise(@, HashPenalty)]
              ELSE res
        r2 == IF blk.structure_ok
              THEN [r1 EXCEPT !.chain_work_valid = TRUE]
              ELSE [r1 EXCEPT !.chain_work_valid = FALSE,
                        !.issues = Append(@, "Chain work verification failed"),
                        !.confidence_score = Penalise(@, ChainWorkPenalty)]
        r3 == IF local_block > 0
              THEN IF validate_state_root(blk.state_root)
                   THEN [r2 EXCEPT !.state_root_valid = TRUE]
                   ELSE [r2 EXCEPT !.state_root_valid = FALSE,
                             !.issues = Append(@, "State root validation failed"),
                             !.confidence_score = Penalise(@, StateRootPenalty)]
              ELSE r2
    IN  [res |-> r3, cache |-> r.cache]

\* verify_chain_integrity: returns [res, cache].
VerifyChainIntegrity(c, lh, rh, level, src, local_block, blk, t) ==
    LET ref == get_reference_block_number(c, src, t)
        r0 == [NewResult EXCEPT !.reference_block = ref.block]
    IN  IF ref.block = 0
        THEN [res |-> [r0 EXCEPT !.issues = Append(@, "Failed to get reference block")],
              cache |-> ref.cache]
        ELSE IF local_block = 0
        THEN [res |-> [r0 EXCEPT !.issues = Append(@, "Failed to get local block")],
              cache |-> ref.cache]
        ELSE
          LET r1 == BlockDiffVerdict([r0 EXCEPT !.local_block = local_block],
                                     ref.block - local_block)
          IN  IF level \in {"comprehensive", "forensic"}
              THEN LET chk == perform_comprehensive_integrity_checks(
                                  r1, ref.cache, lh, rh, local_block, blk, t)
                       det == DetectReorganizations(local_block, chk.cache, lh, rh, t)
                   IN  [res |-> [chk.res EXCEPT !.reorg_detected = det.reorg_detected,
                                               !.reorg_depth = det.reorg_depth],
                        cache |-> det.cache]
              ELSE [res |-> r1, cache |-> ref.cache]

\* ---- calls of the integrity verifier ----
IntegrityLevels == {"standard", "comprehensive"}
\* Heights at which node and reference can disagree or lack a hash: the two
\* nearest below the highest local block and the two at the far end of the
\* scan window.
InterestingHeights == {MaxHeight - 11, MaxHeight - 10, MaxHeight - 2, MaxHeight - 1}
\* Block numbers eth_blockNumber of the node can answer (0 = failure).
LocalBlockValues == {0, MaxHeight - 1}
\* Block heights detect_reorganizations is called with directly.
ScanStarts == {3, MaxHeight - 1, MaxHeight}
\* Answers of the reference sources: lag of the node 5, 20 and 21 blocks.
RefBlockValues == {MaxHeight + 4, MaxHeight + 19, MaxHeight + 20}
SourceAnswers ==
    {[etherscan_raises |-> FALSE, etherscan |-> v, beaconchain |-> 0] : v \in RefBlockValues}
    \cup {[etherscan_raises |-> TRUE, etherscan |-> 0, beaconchain |-> MaxHeight + 4],
          [etherscan_raises |-> TRUE, etherscan |-> 0, beaconchain |-> 0],
          [etherscan_raises |-> FALSE, etherscan |-> 0, beaconchain |-> 0]}
\* The sources of get_reference_block_number answer nothing usable.
NoSourceAnswers == [etherscan_raises |-> FALSE, etherscan |-> 0, beaconchain |-> 0]
\* stateRoot fields: well formed, too short, without the 0x prefix.
StateRoots == {[prefix_0x |-> TRUE, length |-> 66],
               [prefix_0x |-> TRUE, length |-> 10],
               [prefix_0x |-> FALSE, length |-> 66]}
BlockAnswers == {[structure_ok |-> ok, state_root |-> sr] :
                    ok \in BOOLEAN, sr \in StateRoots}

\* Chains on which at most two of the interesting heights are abnormal:
\* the hashes differ, or the node or the reference has no hash.
ChainPairs ==
    {[local |-> [h \in Heights |-> IF h \in DOMAIN ab
                                   THEN (IF ab[h] = "nolocal" THEN ""
                                         ELSE IF ab[h] = "differ" THEN "0xbb" ELSE "0xaa")
                                   ELSE "0xaa"],
      ref |-> [h \in Heights |-> IF h \in DOMAIN ab /\ ab[h] = "noref" THEN "" ELSE "0xaa"]] :
        ab \in UNION {[S -> {"differ", "nolocal", "noref"}] :
                         S \in {T \in SUBSET InterestingHeights : Cardinality(T) <= 2}}}

call_verify_chain_integrity(level, src, local_block, blk) ==
    /\ program = "integrity"
    /\ LET r == VerifyChainIntegrity(cache, local_hash, ref_hash, level, src,
                                     local_block, blk, now)
       IN  /\ integrity' = <<[res |-> r.res, level |-> level]>>
           /\ cache' = r.cache
    /\ reorg' = <<>>
    /\ UNCHANGED <<local_hash, ref_hash>>
    /\ UNCHANGED <<cfgVars, unitVars, compVars, advVars, now, alertVars, schedVars>>

\* The except branch of verify_chain_integrity: an exception escaping one of
\* the steps is turned into an issue of the (otherwise initial) result.
verify_chain_integrity_caught ==
    /\ program = "integrity"
    /\ integrity' = <<[res |-> [NewResult EXCEPT !.issues = Append(@, "Verification error")],
                       level |-> "standard"]>>
    /\ reorg' = <<>>
    /\ UNCHANGED <<local_hash, ref_hash, cache>>
    /\ UNCHANGED <<cfgVars, unitVars, compVars, advVars, now, alertVars, schedVars>>

call_detect_reorganizations(current_block) ==
    /\ program = "integrity"
    /\ LET r == DetectReorganizations(current_block, cache, local_hash, ref_hash, now)
       IN  /\ reorg' = <<[current_block |-> current_block,
                          reorg_detected |-> r.reorg_detected,
                          reorg_depth |-> r.reorg_depth]>>
           /\ cache' = r.cache
    /\ integrity' = <<>>
    /\ UNCHANGED <<local_hash, ref_hash>>
    /\ UNCHANGED <<cfgVars, unitVars, compVars, advVars, now, alertVars, schedVars>>

(***************************************************************************)
(* Alerting                                                                *)
(***************************************************************************)
alert_cooldown == 600

\* Arguments trigger_alert is called with.  The fields may contain '_'.
AlertTypeValues == {"A", "A_B"}
AlertNodeValues == {"C", "B_C"}
AlertMessageValues == {"M"}
SeverityValues == {"warning"}

\* alert_key = f"{alert_type}_{node_name}_{message}"
AlertKey(alert_type, node_name, message) ==
    alert_type \o "_" \o node_name \o "_" \o message

\* The cooldown test of trigger_alert: the key is known and fired less than
\* alert_cooldown seconds ago.
InCooldown(cd, key, t) == key \in DOMAIN cd /\ t - cd[key] < alert_cooldown

\* self.alert_cooldowns[alert_key] = current_time
SetCooldown(cd, key, t) == [k \in DOMAIN cd \cup {key} |-> IF k = key THEN t ELSE cd[k]]

\* The notification channels of send_notifications, in the order they are
\* tried, and what the request of a webhook channel can do: it is accepted
\* (Slack 200, Discord 204), it is answered with another HTTP status, or
\* requests.post raises.  The e-mail channel only writes a log line.
Channels == <<"email", "slack", "discord">>
ChannelOutcomes == {"accepted", "rejected", "raises"}
\* AlertConfig(): no channel is configured.
DefaultDispatch == [configured |-> {}, slack |-> "accepted", discord |-> "accepted"]
DispatchCases ==
    {DefaultDispatch}
    \cup {[configured |-> {"slack"}, slack |-> o, discord |-> "accepted"] :
              o \in ChannelOutcomes}
    \cup {[configured |-> {"email", "slack", "discord"}, slack |-> o, discord |-> p] :
              o \in ChannelOutcomes, p \in ChannelOutcomes}

\* What one configured channel does with an alert.
ChannelOutcome(ch, dispatch) == IF ch = "email" THEN "accepted" ELSE dispatch[ch]

\* send_notifications from channel i on: the channels attempted, those whose
\* dispatch failed and those whose failure was written with logger.error
\* (the except branch of the channel's function).
RECURSIVE send_notifications(_, _)
send_notifications(i, dispatch) ==
    IF i > Len(Channels) THEN [attempted |-> {}, failed |-> {}, logged |-> {}]
    ELSE LET ch == Channels[i]
             rest == send_notifications(i + 1, dispatch)
         IN  IF ch \notin dispatch.configured THEN rest
             ELSE [attempted |-> rest.attempted \cup {ch},
                   failed |-> rest.failed \cup
                       (IF ChannelOutcome(ch, dispatch) # "accepted" THEN {ch} ELSE {}),
                   logged |-> rest.logged \cup
                       (IF ChannelOutcome(ch, dispatch) = "raises" THEN {ch} ELSE {})]

trigger_alert_CooldownAfterStore(alert_type, message, severity, node_name, store_ok, dispatch) ==
    /\ program = "advanced"
    /\ Len(notified) < MaxAlerts
    /\ LET key == AlertKey(alert_type, node_name, message)
           call == [type |-> alert_type, node |-> node_name, message |-> message,
                    at |-> now, suppressed |-> TRUE, returned |-> TRUE,
                    store_failed |-> FALSE, store_logged |-> FALSE,
                    configured |-> {}, attempted |-> {}, failed |-> {}, logged |-> {}]
       IN
       IF InCooldown(alert_cooldowns, key, now)
       THEN /\ last_call' = <<call>>
            /\ UNCHANGED <<alert_cooldowns, alerts_db, notified>>
       ELSE LET alert == [type |-> alert_type, node |-> node_name,
                          message |-> message, severity |-> severity, at |-> now]
                sent == send_notifications(1, dispatch)
            IN  /\ alert_cooldowns' = IF store_ok
                                       THEN SetCooldown(alert_cooldowns, key, now)
                                       ELSE alert_cooldowns
                /\ alerts_db' = IF store_ok THEN Append(alerts_db, alert) ELSE alerts_db
                /\ notified' = Append(notified, alert)
                /\ last_call' = <<[call EXCEPT !.suppressed = FALSE,
                                               !.store_failed = ~store_ok,
                                               !.store_logged = ~store_ok,
                                               !.configured = dispatch.configured,
                                               !.attempted = sent.attempted,
                                               !.failed = sent.failed,
                                               !.logged = sent.logged]>>
    /\ UNCHANGED <<alert_history, alert_counts>>
    /\ UNCHANGED <<cfgVars, collVars, analysisVars, lookupVars, histVars, compVars, advVars,
                   integVars, now, schedVars>>
trigger_alert_RestartsWindow(alert_type, message, severity, node_name, store_ok, dispatch) ==
    /\ program = "advanced"
    /\ Len(notified) < MaxAlerts
    /\ LET key == AlertKey(alert_type, node_name, message)
           call == [type |-> alert_type, node |-> node_name, message |-> message,
                    at |-> now, suppressed |-> TRUE, returned |-> TRUE,
                    store_failed |-> FALSE, store_logged |-> FALSE,
                    configured |-> {}, attempted |-> {}, failed |-> {}, logged |-> {}]
       IN
       IF InCooldown(alert_cooldowns, key, now)
       THEN /\ last_call' = <<call>>
            /\ alert_cooldowns' = SetCooldown(alert_cooldowns, key, now)
            /\ UNCHANGED <<alerts_db, notified>>
       ELSE LET alert == [type |-> alert_type, node |-> node_name,
                          message |-> message, severity |-> severity, at |-> now]
                sent == send_notifications(1, dispatch)
            IN  /\ alert_cooldowns' = SetCooldown(alert_cooldowns, key, now)
                /\ alerts_db' = IF store_ok THEN Append(alerts_db, alert) ELSE alerts_db
                /\ notified' = Append(notified, alert)
                /\ last_call' = <<[call EXCEPT !.suppressed = FALSE,
                                               !.store_failed = ~store_ok,
                                               !.store_logged = ~store_ok,
                                               !.configured = dispatch.configured,
                                               !.attempted = sent.attempted,
                                               !.failed = sent.failed,
                                               !.logged = sent.logged]>>
    /\ UNCHANGED <<alert_history, alert_counts>>
    /\ UNCHANGED <<cfgVars, collVars, analysisVars, lookupVars, histVars, compVars, advVars,
                   integVars, now, schedVars>>
\* trigger_alert.  store_ok: the INSERT of store_alert succeeds (a failure is
\* logged by store_alert and not propagated).  send_notifications hands the
\* alert to the configured channels.  last_call records the arguments, the
\* time, whether the call returned at the cooldown test, and what store_alert
\* and the channels did.
trigger_alert(alert_type, message, severity, node_name, store_ok, dispatch) ==
    /\ program = "advanced"
    /\ Len(notified) < MaxAlerts
    /\ LET key == AlertKey(alert_type, node_name, message)
           call == [type |-> alert_type, node |-> node_name, message |-> message,
                    at |-> now, suppressed |-> TRUE, returned |-> TRUE,
                    store_failed |-> FALSE, store_logged |-> FALSE,
                    configured |-> {}, attempted |-> {}, failed |-> {}, logged |-> {}]
       IN
       IF InCooldown(alert_cooldowns, key, now)
       THEN /\ last_call' = <<call>>
            /\ UNCHANGED <<alert_cooldowns, alerts_db, notified>>
       ELSE LET alert == [type |-> alert_type, node |-> node_name,
                          message |-> message, severity |-> severity, at |-> now]
                sent == send_notifications(1, dispatch)
            IN  /\ alert_cooldowns' = SetCooldown(alert_cooldowns, key, now)
                /\ alerts_db' = IF store_ok THEN Append(alerts_db, alert) ELSE alerts_db
                /\ notified' = Append(notified, alert)
                /\ last_call' = <<[call EXCEPT !.suppressed = FALSE,
                                               !.store_failed = ~store_ok,
                                               !.store_logged = ~store_ok,
                                               !.configured = dispatch.configured,
                                               !.attempted = sent.attempted,
                                               !.failed = sent.failed,
                                               !.logged = sent.logged]>>
    /\ UNCHANGED <<alert_history, alert_counts>>
    /\ UNCHANGED <<cfgVars, collVars, analysisVars, lookupVars, histVars, compVars, advVars,
                   integVars, now, schedVars>>

\* Alert dicts as check_alerts of the comprehensive verifier produces them.
AlertDicts ==
    {[type |-> "WARNING", node |-> "geth", message |-> "Low peer count: 3"],
     [type |-> "CRITICAL", node |-> "geth", message |-> "Critical health score: 20%"],
     [type |-> "CRITICAL", node |-> "", message |-> "Verification error"]}
AlertLists == {<<a>> : a \in AlertDicts}
              \cup {<<p[1], p[2]>> : p \in {q \in AlertDicts \X AlertDicts : q[1] # q[2]}}
Networks == {"mainnet", "sepolia"}

\* An entry of alert_history; at is the time it was appended.
HistoryEntry(a, network, timestamp, t) ==
    [type |-> a.type, node |-> a.node, message |-> a.message,
     network |-> network, timestamp |-> timestamp, at |-> t]

RECURSIVE StampAll(_, _, _, _)
StampAll(alerts, network, timestamp, t) ==
    IF alerts = <<>> THEN <<>>
    ELSE <<HistoryEntry(Head(alerts), network, timestamp, t)>>
           \o StampAll(Tail(alerts), network, timestamp, t)

NoTimestamp == -1

handle_alerts_KeepsRecent(alerts, network) ==
    /\ program = "comprehensive"
    /\ Len(alert_history) + Len(alerts) <= MaxAlerts
    /\ LET all == alert_history \o StampAll(alerts, network, now, now) IN
       alert_history' = IF Len(all) > 2 THEN SubSeq(all, Len(all) - 1, Len(all)) ELSE all
    /\ UNCHANGED <<alert_cooldowns, alerts_db, notified, alert_counts>>
    /\ UNCHANGED <<cfgVars, unitVars, compVars, advVars, integVars, now, schedVars>>
\* BlockchainSyncVerifier.handle_alerts (comprehensive): every alert gets the
\* network and the timestamp of the iteration and is appended to alert_history.
handle_alerts(alerts, network) ==
    /\ program = "comprehensive"
    /\ Len(alert_history) + Len(alerts) <= MaxAlerts
    /\ alert_history' = alert_history \o StampAll(alerts, network, now, now)
    /\ UNCHANGED <<alert_cooldowns, alerts_db, notified, alert_counts>>
    /\ UNCHANGED <<cfgVars, unitVars, compVars, advVars, integVars, now, schedVars>>

RECURSIVE CountAll(_, _)
CountAll(counts, alerts) ==
    IF alerts = <<>> THEN counts
    ELSE CountAll([counts EXCEPT ![Head(alerts).type] = @ + 1], Tail(alerts))

\* RealTimeMonitor._handle_alerts: counts the alerts by type and extends the
\* verifier's alert_history with them as they are.
realtime_handle_alerts(alerts) ==
    /\ program = "realtime"
    /\ Len(alert_history) + Len(alerts) <= MaxAlerts
    /\ alert_counts' = CountAll(alert_counts, alerts)
    /\ alert_history' = alert_history \o StampAll(alerts, "", NoTimestamp, now)
    /\ UNCHANGED <<alert_cooldowns, alerts_db, notified>>
    /\ UNCHANGED <<cfgVars, unitVars, compVars, advVars, integVars, now, schedVars>>

\* Time passes between two alerts.
AlertTicks == {300, 400}
AlertTick(d) ==
    /\ now + d <= MaxAlertTime
    /\ now' = now + d
    /\ UNCHANGED <<cfgVars, unitVars, compVars, advVars, integVars, alertVars, schedVars>>

(***************************************************************************)
(* Monitoring loops                                                        *)
(*   "realtime": RealTimeMonitor.start_monitoring                          *)
(*   "advanced": BlockchainSyncVerifier.monitor_realtime                   *)
(*   "mevrpc":   MEVRPCMonitor.monitoring_loop                             *)
(***************************************************************************)
LoopPrograms == {"realtime", "advanced", "mevrpc"}
\* Seconds slept after a completed iteration.
interval == 30
\* Seconds MEVRPCMonitor.monitoring_loop sleeps after a failed iteration.
error_interval == 60
\* duration * 60 for the sessions explored.
DurationSeconds == {60, 120}
TickSeconds == 10

\* monitoring_loop has no session end.
HasDeadline == program # "mevrpc"
\* The session has started and its end time has passed.
Expired == HasDeadline /\ sched_state # "IDLE" /\ now >= end_time

LoopCondition_IgnoresFlag(run, t, has_end, end) == (~has_end \/ t < end)
\* while self.running and time.time() < end_time   (realtime, advanced)
\* while self.monitoring                           (mevrpc)
LoopCondition(run, t, has_end, end) == run /\ (~has_end \/ t < end)

LoopHead_NeverLeaves ==
    IF LoopCondition(running, now, HasDeadline, end_time)
    THEN /\ sched_state' = "RUNNING"
         /\ iteration' = iteration + 1
         /\ iter_failed' = FALSE
         /\ UNCHANGED <<running, shutdowns>>
    ELSE /\ UNCHANGED <<sched_state, running, iteration, iter_failed, shutdowns>>
\* The loop head: another iteration starts, or the loop is left and the
\* step after the loop runs (realtime: _shutdown_monitoring in the finally
\* clause; advanced: self.monitoring = False and the closing log line).
LoopHead ==
    IF LoopCondition(running, now, HasDeadline, end_time)
    THEN /\ sched_state' = "RUNNING"
         /\ iteration' = iteration + 1
         /\ iter_failed' = FALSE
         /\ UNCHANGED <<running, shutdowns>>
    ELSE /\ sched_state' = "STOPPED"
         \* monitor_realtime ends with self.monitoring = False
         /\ running' = IF program = "advanced" THEN FALSE ELSE running
         /\ shutdowns' = shutdowns + 1
         /\ UNCHANGED <<iteration, iter_failed>>

\* start_monitoring / monitor_realtime / monitoring_loop up to the first
\* evaluation of the loop condition.
StartMonitoring(duration) ==
    /\ program \in LoopPrograms
    /\ sched_state = "IDLE"
    /\ running' = TRUE
    /\ end_time' = now + duration
    /\ sched_state' = "RUNNING"
    /\ iteration' = iteration + 1
    /\ iter_failed' = FALSE
    /\ UNCHANGED <<wake_at, sleep_len, errors_logged, crashed, stop_seen, shutdowns>>
    /\ UNCHANGED <<cfgVars, unitVars, compVars, advVars, integVars, now, alertVars>>

\* The signal handler: self.running = False / self.monitoring = False.
StopSignal ==
    /\ sched_state \in {"RUNNING", "SLEEPING"}
    /\ running' = FALSE
    /\ stop_seen' = IF stop_seen = "none" THEN sched_state ELSE stop_seen
    /\ UNCHANGED <<sched_state, end_time, iteration, iter_failed, wake_at,
                   sleep_len, errors_logged, crashed, shutdowns>>
    /\ UNCHANGED <<cfgVars, unitVars, compVars, advVars, integVars, now, alertVars>>

\* The sleep at the end of a completed iteration: <<sleeps, seconds>>.
SleepAfterIteration ==
    CASE program = "realtime" ->
           IF running /\ now < end_time
           THEN <<TRUE, Min(interval, end_time - now)>> ELSE <<FALSE, 0>>
      [] program = "advanced" ->
           IF now < end_time THEN <<TRUE, interval>> ELSE <<FALSE, 0>>
      [] OTHER -> <<TRUE, interval>>

\* The iteration runs to its end; the loop sleeps, or goes to the loop head
\* at once.
EndIteration ==
    /\ sched_state = "RUNNING"
    /\ IF SleepAfterIteration[1]
       THEN /\ sched_state' = "SLEEPING"
            /\ sleep_len' = SleepAfterIteration[2]
            /\ wake_at' = now + SleepAfterIteration[2]
            /\ UNCHANGED <<running, iteration, iter_failed, shutdowns>>
       ELSE /\ LoopHead
            /\ UNCHANGED <<sleep_len, wake_at>>
    /\ UNCHANGED <<end_time, errors_logged, crashed, stop_seen>>
    /\ UNCHANGED <<cfgVars, unitVars, compVars, advVars, integVars, now, alertVars>>

\* An exception inside the iteration.
\*   realtime: caught around the check of one network, printed and logged;
\*             the iteration goes on.
\*   mevrpc:   caught around the whole iteration, logged, then sleep(60).
\*   advanced: nothing catches it, monitor_realtime is left by the exception.
IterationError ==
    /\ sched_state = "RUNNING"
    /\ ~iter_failed
    /\ iter_failed' = TRUE
    /\ CASE program = "realtime" ->
              /\ errors_logged' = errors_logged + 1
              /\ UNCHANGED <<sched_state, sleep_len, wake_at, crashed>>
         [] program = "mevrpc" ->
              /\ errors_logged' = errors_logged + 1
              /\ sched_state' = "SLEEPING"
              /\ sleep_len' = error_interval
              /\ wake_at' = now + error_interval
              /\ UNCHANGED crashed
         [] OTHER ->
              /\ crashed' = TRUE
              /\ sched_state' = "STOPPED"
              /\ UNCHANGED <<errors_logged, sleep_len, wake_at>>
    /\ UNCHANGED <<running, end_time, iteration, stop_seen, shutdowns>>
    /\ UNCHANGED <<cfgVars, unitVars, compVars, advVars, integVars, now, alertVars>>

\* The sleep is over: back to the loop head.
Wake ==
    /\ sched_state = "SLEEPING"
    /\ now >= wake_at
    /\ LoopHead
    /\ UNCHANGED <<end_time, wake_at, sleep_len, errors_logged, crashed, stop_seen>>
    /\ UNCHANGED <<cfgVars, unitVars, compVars, advVars, integVars, now, alertVars>>

\* Time passes while an iteration runs or the loop sleeps.
SchedTick ==
    /\ sched_state \in {"RUNNING", "SLEEPING"}
    /\ now + TickSeconds <= MaxTime
    /\ now' = now + TickSeconds
    /\ UNCHANGED <<cfgVars, unitVars, compVars, advVars, integVars, alertVars, schedVars>>

(***************************************************************************)
(* One collector call on one node, for the three verifiers                 *)
(***************************************************************************)
\* Answers of eth_syncing: the request fails, the node answers false, or it
\* answers a sync object {currentBlock, highestBlock}.
SyncingAnswers ==
    {[kind |-> "failed", current |-> 0, highest |-> 0],
     [kind |-> "false", current |-> 0, highest |-> 0]}
    \cup {[kind |-> "syncing", current |-> ch[1], highest |-> ch[2]] :
            ch \in {<<50, 100>>, <<100, 100>>, <<100 + MaxDivergence, 100>>,
                    <<0, 0>>, <<100, 0>>}}
\* Answers of eth_blockNumber: <<>> (HTTP status other than 200) or <<block>>.
BlockNumberAnswers == {<<>>, <<0>>, <<100>>}
\* cpu (percent), memory (GB) of the client process and the duration of the
\* collection (ms).
ResourceSamples == MetricSamples \cup {[cpu |-> 50, mem |-> 8, elapsed |-> 50]}
ProbeAnswers ==
    [service : ServiceStates, syncing : SyncingAnswers,
     block_number : BlockNumberAnswers, peers : PeerValues,
     resources : ResourceSamples]

\* comprehensive get_rpc_sync_data: None (<<>>) or <<sync_data>>.
get_rpc_sync_data(a) ==
    IF a.syncing.kind = "failed" THEN <<>>
    ELSE IF a.syncing.kind = "syncing"
    THEN <<[sync_status |-> "syncing", current_block |-> a.syncing.current,
            highest_block |-> a.syncing.highest, peer_count |-> a.peers,
            block_hash |-> <<>>]>>
    ELSE LET b == IF a.block_number = <<>> THEN 0 ELSE a.block_number[1] IN
         <<[sync_status |-> "fully_synced", current_block |-> b,
            highest_block |-> b, peer_count |-> a.peers,
            block_hash |-> <<"0xaa">>]>>

\* comprehensive get_node_sync_status as a function of the probe answers.
get_node_sync_status(a) ==
    IF a.service # "active"
    THEN [DefaultStatus EXCEPT !.service_status = a.service,
                               !.issues = <<"Service not running">>]
    ELSE RpcPhase([DefaultStatus EXCEPT !.service_status = a.service],
                  get_rpc_sync_data(a), a.resources)

\* The probe answers as the advanced verify_single_node receives them.
AdvProbe(a) ==
    [service |-> IF a.service = "active" THEN "running" ELSE "stopped",
     rpc |-> a.syncing.kind # "failed",
     sync |-> IF a.syncing.kind = "failed" THEN <<>>
              ELSE IF a.syncing.kind = "syncing"
              THEN <<[syncing |-> TRUE, current |-> a.syncing.current,
                      highest |-> a.syncing.highest]>>
              ELSE <<[syncing |-> FALSE,
                      current |-> IF a.block_number = <<>> THEN NoBlock
                                  ELSE a.block_number[1],
                      highest |-> 0]>>,
     peers |-> a.peers,
     memory_mb |-> a.resources.mem * 1024,
     cpu |-> a.resources.cpu]

\* basic _verify_single_node.  systemctl is asked for node['service'] on the
\* NodeInfo dataclass, which is not subscriptable: the TypeError is caught
\* and status is 'error' whatever the service does, so the resource probes
\* (status == 'running') never run.  For eth_syncing = false the code sets
\* sync_progress = 100.0 and then calls .get on the boolean result: the
\* AttributeError is caught by the inner handler, which zeroes the fields.
basic_verify_single_node(a) ==
    LET rpc == a.syncing.kind # "failed"
        sy == IF ~rpc THEN <<NoProgress, NoBlock, NoBlock>>
              ELSE IF a.syncing.kind = "false" THEN <<0, 0, 0>>
              ELSE <<IF a.syncing.highest > 0
                     THEN (a.syncing.current * 100) \div a.syncing.highest
                     ELSE 100,
                     a.syncing.current, a.syncing.highest>>
    IN  [status |-> "error",
         rpc_responsive |-> rpc,
         sync_progress |-> sy[1],
         current_block |-> sy[2],
         highest_block |-> sy[3],
         peers |-> 0,
         memory_mb |-> 0,
         cpu_usage_percent |-> 0]

\* basic _calculate_health_score for self.nodes holding the one node, floored.
basic_calculate_health_score(node) ==
    LET svc == IF node.status = "running" THEN 30 ELSE 0
        rpc == IF node.rpc_responsive THEN 40 ELSE 0
        syn == IF node.sync_progress = NoProgress THEN 0
               ELSE Min(30, (node.sync_progress * 30) \div 100)
    IN  svc + rpc + syn

\* advanced detect_node_issues, as the set of the issues it appends.  The
\* uptime of the service and the latency of the first request are not among
\* the probe answers; the issues that depend on them are left out.
detect_node_issues(node) ==
    (IF node.status # "running" THEN {"Service is not running"} ELSE {})
    \cup (IF ~node.rpc_responsive THEN {"RPC endpoint not responding"} ELSE {})
    \cup (IF node.sync_progress # NoProgress /\ node.sync_progress < 50
              /\ node.status = "running"
           THEN {"Low sync progress"} ELSE {})
    \cup (IF node.peers < 5 THEN {"Low peer connectivity"} ELSE {})
    \cup (IF node.memory_mb > 24000 THEN {"High memory usage"} ELSE {})
    \cup (IF node.cpu_usage_percent > 90 THEN {"High CPU usage"} ELSE {})

\* The issue detection at the end of the basic _verify_single_node.
basic_detect_issues(node) ==
    (IF node.status # "running" THEN {"Service is not running"} ELSE {})
    \cup (IF ~node.rpc_responsive THEN {"RPC endpoint not responding"} ELSE {})
    \cup (IF node.memory_mb > 16000 THEN {"High memory usage"} ELSE {})
    \cup (IF node.peers < 5 THEN {"Low peer connectivity"} ELSE {})

\* The issue list of a SyncStatus as a set.
IssueSet(issues) == {issues[i] : i \in DOMAIN issues}

\* SyncStatus values calculate_health_score can be handed: any service state,
\* sync state, peer count, resource usage, latency (ms) and number of issues.
IssueCounts == {0, 1, 25}
ScorerStatuses ==
    {[DefaultStatus EXCEPT !.service_status = svc, !.sync_status = sy,
                           !.current_block = cur, !.highest_block = 100,
                           !.sync_progress = SyncProgress(cur, 100),
                           !.peer_count = p, !.cpu_usage = m.cpu,
                           !.memory_usage = m.mem, !.response_time = rt,
                           !.issues = [i \in 1..k |-> "issue"]] :
        svc \in ServiceStates, sy \in {"fully_synced", "syncing", "error"},
        cur \in {0, 50, 100}, p \in PeerValues, m \in MetricSamples,
        rt \in {0, 6000}, k \in IssueCounts}

\* calculate_health_score applied to one SyncStatus.
score_comprehensive ==
    /\ program = "comprehensive"
    /\ "issues" \in DOMAIN col_in
    /\ col_out = <<>>
    /\ col_out' = <<[node |-> col_in, health_score |-> calculate_health_score(col_in),
                     issues |-> IssueSet(col_in.issues)]>>
    /\ UNCHANGED <<col_in, analysisVars>>
    /\ UNCHANGED <<cfgVars, auxVars, compVars, advVars, integVars, now, alertVars,
                   schedVars>>

\* One collection of the node by the verifier the program runs.
collect_comprehensive ==
    /\ program = "comprehensive"
    /\ "syncing" \in DOMAIN col_in
    /\ col_out = <<>>
    /\ LET s == get_node_sync_status(col_in) IN
         col_out' = <<[node |-> s, health_score |-> s.health_score,
                       issues |-> IssueSet(s.issues)]>>
    /\ UNCHANGED <<col_in, analysisVars>>
    /\ UNCHANGED <<cfgVars, auxVars, compVars, advVars, integVars, now, alertVars,
                   schedVars>>

collect_advanced ==
    /\ program = "advanced"
    /\ "syncing" \in DOMAIN col_in
    /\ col_out = <<>>
    /\ LET node == verify_single_node(AdvProbe(col_in)) IN
         col_out' = <<[node |-> node, health_score |-> node.health_score,
                       issues |-> detect_node_issues(node)]>>
    /\ UNCHANGED <<col_in, analysisVars>>
    /\ UNCHANGED <<cfgVars, auxVars, compVars, advVars, integVars, now, alertVars,
                   schedVars>>

collect_basic ==
    /\ program = "basic"
    /\ "syncing" \in DOMAIN col_in
    /\ col_out = <<>>
    /\ LET node == basic_verify_single_node(col_in) IN
         col_out' = <<[node |-> node,
                       health_score |-> basic_calculate_health_score(node),
                       issues |-> basic_detect_issues(node)]>>
    /\ UNCHANGED <<col_in, analysisVars>>
    /\ UNCHANGED <<cfgVars, auxVars, compVars, advVars, integVars, now, alertVars,
                   schedVars>>

(***************************************************************************)
(* Analysis and check_alerts on one snapshot set (comprehensive verifier)  *)
(***************************************************************************)
\* Block heights and health scores of the snapshot statuses: divergences of
\* 5, 21 and 51 blocks, health scores around the limits 30 and 50.
AnalysisBlocks == {0, 100, 100 + MaxDivergence, 121, 151}
HealthValues == {29, 30, 49, 50}
SnapshotStatuses ==
    {[DefaultStatus EXCEPT !.service_status = "active",
                           !.sync_status = "fully_synced",
                           !.current_block = b, !.highest_block = b,
                           !.sync_progress = IF b > 0 THEN 100 ELSE 0,
                           !.peer_count = 30, !.health_score = h,
                           !.response_time = 50] :
        b \in AnalysisBlocks, h \in HealthValues}
    \cup {ErrorStatus}

StampedReport_RefInVerdict(ns, tol, reference_block, t) ==
    LET rep0 == ConsistencyReport(ns, tol, reference_block)
        rep == IF IsError(rep0) \/ reference_block <= 0 THEN rep0
               ELSE [rep0 EXCEPT !.summary.consistent =
                        IsConsistent(Max(reference_block, rep0.summary.highest_block)
                                         - rep0.summary.lowest_block, tol)]
    IN
    [report |-> rep,
     timestamp |-> IF IsError(rep) THEN NoTimestamp ELSE t,
     reference_block |-> reference_block]
\* The report of one analysis together with summary.timestamp
\* (datetime.now() of the analysis) and the reference answer it used.
StampedReport(ns, tol, reference_block, t) ==
    LET rep == ConsistencyReport(ns, tol, reference_block) IN
    [report |-> rep,
     timestamp |-> IF IsError(rep) THEN NoTimestamp ELSE t,
     reference_block |-> reference_block]

\* The analysis of verify_cross_node_consistency on the snapshot set.
analyze_snapshots(reference_block) ==
    /\ program = "comprehensive"
    /\ reports = <<>>
    /\ reports' = <<StampedReport(an_statuses, tolerance_blocks, reference_block, now)>>
    /\ UNCHANGED <<collVars, an_statuses, alert_thresholds, alerts_out>>
    /\ UNCHANGED <<cfgVars, auxVars, compVars, advVars, integVars, now, alertVars,
                   schedVars>>

\* The same analysis run again on the unchanged snapshot set, with the same
\* reference answer.
analyze_again ==
    /\ program = "comprehensive"
    /\ Len(reports) = 1
    /\ reports' = Append(reports,
                         StampedReport(an_statuses, tolerance_blocks,
                                       reports[1].reference_block, now))
    /\ UNCHANGED <<collVars, an_statuses, alert_thresholds, alerts_out>>
    /\ UNCHANGED <<cfgVars, auxVars, compVars, advVars, integVars, now, alertVars,
                   schedVars>>

\* The clock advances between two analyses.
AnalysisTick ==
    /\ program = "comprehensive"
    /\ Len(reports) = 1
    /\ now < MaxAnalysisTime
    /\ now' = now + 1
    /\ UNCHANGED <<cfgVars, unitVars, compVars, advVars, integVars, alertVars, schedVars>>

\* The tiers a caller names and the settings of each tier (load_config:
\* min_peers and max_response_time, the latter in ms).
ThresholdTiers == {"conservative", "moderate", "aggressive"}
TierThresholds(tier) ==
    [min_peers |-> IF tier = "conservative" THEN 25
                   ELSE IF tier = "moderate" THEN 15 ELSE 8,
     max_response_time |-> IF tier = "conservative" THEN 1000
                           ELSE IF tier = "moderate" THEN 2000 ELSE 5000]
\* alert_thresholds keyed by setting (load_config) or keyed by tier (a
\* configuration file that replaces it).
AlertThresholdShapes == {DefaultAlertThresholds, "by_tier"}
\* The threshold argument: a tier name, or a dict of settings.
ThresholdArgs ==
    {[kind |-> "tier", tier |-> t, min_peers |-> 0, max_response_time |-> 0] :
        t \in ThresholdTiers}
    \cup {[kind |-> "dict", tier |-> "", min_peers |-> 8, max_response_time |-> 2000]}

Alert(type, node, kind) == [type |-> type, node |-> node, kind |-> kind]
When(cond, alert) == IF cond THEN <<alert>> ELSE <<>>

\* The node-specific alerts of check_alerts for one node of the report.
NodeAlerts(n, nd, th) ==
    (IF nd.health_score < 30 THEN <<Alert("CRITICAL", n, "health")>>
     ELSE IF nd.health_score < 50 THEN <<Alert("WARNING", n, "health")>>
     ELSE <<>>)
    \o When(nd.sync_status = "error", Alert("CRITICAL", n, "sync_error"))
    \o When(nd.peer_count < th.min_peers, Alert("WARNING", n, "peers"))
    \o When(nd.response_time > th.max_response_time, Alert("WARNING", n, "response_time"))
    \o When(Len(nd.issues) > 5, Alert("CRITICAL", n, "issues"))

RECURSIVE AllNodeAlerts(_, _, _)
AllNodeAlerts(i, rep, th) ==
    IF i > Len(NodeTypeList) THEN <<>>
    ELSE NodeAlerts(NodeTypeList[i], rep.nodes[NodeTypeList[i]], th)
         \o AllNodeAlerts(i + 1, rep, th)

\* The divergence alert of check_alerts.
DivergenceAlerts(summary) ==
    IF summary.consistent THEN <<>>
    ELSE IF summary.block_difference > 50 THEN <<Alert("CRITICAL", "", "divergence")>>
    ELSE IF summary.block_difference > 20 THEN <<Alert("WARNING", "", "divergence")>>
    ELSE <<>>

\* check_alerts(consistency_results, threshold).  A tier name is looked up
\* with alert_thresholds.get(threshold, alert_thresholds["moderate"]), whose
\* default is evaluated first: with alert_thresholds keyed by setting the
\* lookup of "moderate" raises KeyError before anything else happens.
check_alerts(rep, arg, shape) ==
    IF arg.kind = "tier" /\ shape = DefaultAlertThresholds
    THEN [raised |-> TRUE, alerts |-> <<>>]
    ELSE
      LET th == IF arg.kind = "tier" THEN TierThresholds(arg.tier)
                ELSE [min_peers |-> arg.min_peers,
                      max_response_time |-> arg.max_response_time]
      IN [raised |-> FALSE,
          alerts |->
            IF IsError(rep) THEN <<Alert("CRITICAL", "", "verification_error")>>
            ELSE DivergenceAlerts(rep.summary)
                 \o (IF rep.reference # <<>> /\ ~rep.reference[1].reference_consistent
                     THEN IF rep.reference[1].local_max_diff > 50
                          THEN <<Alert("CRITICAL", "", "reference")>>
                          ELSE IF rep.reference[1].local_max_diff > 20
                          THEN <<Alert("WARNING", "", "reference")>>
                          ELSE <<>>
                     ELSE <<>>)
                 \o When(rep.reorg_check # <<>> /\ rep.reorg_check[1].status = "inconsistent",
                         Alert("WARNING", "", "reorg"))
                 \o AllNodeAlerts(1, rep, th)]

\* check_alerts on the report of the first analysis.
call_check_alerts(arg) ==
    /\ program = "comprehensive"
    /\ reports # <<>>
    /\ alerts_out = <<>>
    /\ LET out == check_alerts(reports[1].report, arg, alert_thresholds) IN
         alerts_out' = <<[raised |-> out.raised, alerts |-> out.alerts, threshold |-> arg]>>
    /\ UNCHANGED <<collVars, an_statuses, alert_thresholds, reports>>
    /\ UNCHANGED <<cfgVars, auxVars, compVars, advVars, integVars, now, alertVars,
                   schedVars>>

(***************************************************************************)
(* Initial state and the consistency specification                         *)
(***************************************************************************)
\* The DashboardMetrics object MEVDashboard.__init__ creates.
MetricsObject == "self.metrics"

NoAlertCounts == [CRITICAL |-> 0, WARNING |-> 0, INFO |-> 0]

\* The state after construction of every object, before any call.
InitBase ==
    /\ vpc = "idle"
    /\ task_pc = [n \in NodeTypes |-> "none"]
    /\ status = [n \in NodeTypes |-> DefaultStatus]
    /\ scored = {}
    /\ await_idx = 1
    /\ node_statuses = [n \in NodeTypes |-> <<>>]
    /\ results = <<>>
    /\ nodes = [name \in AdvNames |-> <<>>]
    /\ adv_report = <<>>
    /\ adv_fresh = {}
    /\ adv_raised = FALSE
    /\ cache = EmptyCache
    /\ integrity = <<>>
    /\ reorg = <<>>
    /\ now = 0
    /\ alert_cooldowns = [k \in {} |-> 0]
    /\ alerts_db = <<>>
    /\ notified = <<>>
    /\ alert_history = <<>>
    /\ alert_counts = NoAlertCounts
    /\ sched_state = "IDLE"
    /\ running = FALSE
    /\ end_time = 0
    /\ iteration = 0
    /\ iter_failed = FALSE
    /\ wake_at = 0
    /\ sleep_len = 0
    /\ errors_logged = 0
    /\ crashed = FALSE
    /\ stop_seen = "none"
    /\ shutdowns = 0
    /\ col_out = <<>>
    /\ reports = <<>>
    /\ alerts_out = <<>>
    /\ ref_sources = NoSourceAnswers
    /\ lookup_out = <<>>
    /\ last_call = <<>>
    /\ performance_history = <<>>
    /\ historical_data = <<>>
    /\ heap = [o \in {MetricsObject} |-> 0]
    /\ collected = 0

\* A chain on which node and reference agree at every height.
AgreeingChain == [h \in Heights |-> "0xaa"]

\* The inputs of the single-call specifications when no such call is made.
IdleProbe ==
    [service |-> "inactive",
     syncing |-> [kind |-> "failed", current |-> 0, highest |-> 0],
     block_number |-> <<>>, peers |-> 3,
     resources |-> [cpu |-> 0, mem |-> 0, elapsed |-> 50]]
IdleUnits ==
    /\ col_in = IdleProbe
    /\ an_statuses = [n \in NodeTypes |-> DefaultStatus]
    /\ alert_thresholds = DefaultAlertThresholds

InitConsistency ==
    /\ InitBase
    /\ program \in {"comprehensive", "advanced"}
    /\ tolerance_blocks \in ToleranceValues
    /\ local_hash = AgreeingChain
    /\ ref_hash = AgreeingChain
    /\ IdleUnits

NextConsistency ==
    \/ StartVerify
    \/ \E n \in NodeTypes, svc \in ServiceStates : TaskService(n, svc)
    \/ \E n \in NodeTypes, ans \in RpcAnswers, m \in MetricSamples : TaskRpc(n, ans, m)
    \/ \E n \in NodeTypes : TaskCaught(n)
    \/ \E n \in NodeTypes : TaskRaise(n)
    \/ AwaitTask
    \/ \E r \in ReferenceValues : Analyze(r)
    \/ \E f \in NodeTypeFilters :
          \E answers \in [get_node_configurations(f) -> AdvAnswers] :
             verify_sync_status(f, answers)
    \/ \E f \in NodeTypeFilters : verify_sync_status_raises(f)
    \/ validate_cross_node_consistency

SpecConsistency == InitConsistency /\ [][NextConsistency]_vars

(***************************************************************************)
(* Claims about the consistency analysis                                   *)
(***************************************************************************)
HasVerdict == results # <<>> /\ ~IsError(results[1])
AdvHasVerdict == adv_report # <<>> /\ adv_report[1].status = "ok"

\* C2: in every consistency report that carries a verdict, divergence =
\* max_block - min_block >= 0, and consistent holds exactly when
\* divergence <= tolerance_blocks (divergence equal to the tolerance is
\* consistent).
C2_DivergenceVerdict ==
    /\ HasVerdict =>
         LET s == results[1].summary IN
           /\ s.block_difference = s.highest_block - s.lowest_block
           /\ s.block_difference >= 0
           /\ s.consistent <=> (s.block_difference <= s.tolerance_blocks)
    /\ AdvHasVerdict =>
         LET r == adv_report[1] IN
           /\ r.block_difference = r.max_block - r.min_block
           /\ r.block_difference >= 0
           /\ r.nodes_consistent <=> (r.block_difference <= r.tolerance)

\* C2 witness: a report whose divergence is exactly the (positive) tolerance
\* and whose verdict is consistent.
C2_Witness ==
    /\ HasVerdict
    /\ results[1].summary.block_difference = results[1].summary.tolerance_blocks
    /\ results[1].summary.block_difference > 0
    /\ results[1].summary.consistent

\* C3: for every node of a consistency report, blocks_behind = max_block -
\* node block, and the node is flagged lagging exactly when blocks_behind >
\* tolerance (a node exactly tolerance blocks behind is not lagging).
C3_LaggingStrict ==
    /\ HasVerdict =>
         LET s == results[1].summary IN
           \A n \in DOMAIN results[1].nodes :
             LET nd == results[1].nodes[n] IN
               /\ nd.blocks_behind = s.highest_block - nd.current_block
               /\ nd.lagging <=> (nd.blocks_behind > s.tolerance_blocks)
    /\ AdvHasVerdict =>
         LET r == adv_report[1] IN
           /\ \A name \in DOMAIN r.block_numbers :
                (\E l \in r.lagging_nodes : l.name = name)
                   <=> (r.max_block - r.block_numbers[name] > r.tolerance)
           /\ \A l \in r.lagging_nodes :
                /\ l.name \in DOMAIN r.block_numbers
                /\ l.block_number = r.block_numbers[l.name]
                /\ l.lag_blocks = r.max_block - l.block_number

\* C3 witness: a node exactly tolerance (> 0) blocks behind the highest node,
\* reported as not lagging.
C3_Witness ==
    /\ HasVerdict
    /\ \E n \in DOMAIN results[1].nodes :
         /\ results[1].nodes[n].blocks_behind = results[1].summary.tolerance_blocks
         /\ results[1].nodes[n].blocks_behind > 0
         /\ ~results[1].nodes[n].lagging

\* C35: in a report whose verdict is consistent, no node of the report is
\* flagged lagging, whatever the node's current_block.
C35_ConsistentMeansNoLagging ==
    /\ (HasVerdict /\ results[1].summary.consistent) =>
         \A n \in DOMAIN results[1].nodes : ~results[1].nodes[n].lagging
    /\ (AdvHasVerdict /\ adv_report[1].nodes_consistent) =>
         adv_report[1].lagging_nodes = {}

\* C36: check_reorganizations reports 'inconsistent' only if two nodes of the
\* report give different block hashes for the same block height; nodes whose
\* head blocks are at different heights produce no reorganization finding.
C36_ReorgNeedsSameHeight ==
    (/\ HasVerdict
     /\ results[1].reorg_check # <<>>
     /\ results[1].reorg_check[1].status = "inconsistent") =>
        \E n, m \in DOMAIN results[1].nodes :
            LET a == results[1].nodes[n]
                b == results[1].nodes[m]
            IN  /\ a.block_hash # <<>> /\ b.block_hash # <<>>
                /\ a.current_block = b.current_block
                /\ a.block_hash # b.block_hash

C10_BarrierBeforeScoring ==
    /\ scored # {} => \A n \in NodeTypes : TaskFinished(n)
    /\ results # <<>> => \A n \in NodeTypes : TaskFinished(n)

C12_CollectorNeverRaises ==
    /\ ~adv_raised
    /\ vpc = "returned" => \A n \in NodeTypes : node_statuses[n] # <<>>
    /\ \A name \in adv_fresh : nodes[name] # <<>>

(***************************************************************************)
(* The collector specification and its claims                              *)
(***************************************************************************)
CollectorPrograms == {"comprehensive", "advanced", "basic"}

InitCollector ==
    /\ InitBase
    /\ program \in CollectorPrograms
    /\ tolerance_blocks = 5
    /\ local_hash = AgreeingChain
    /\ ref_hash = AgreeingChain
    /\ \/ col_in \in ProbeAnswers
       \/ program = "comprehensive" /\ col_in \in ScorerStatuses
    /\ an_statuses = [n \in NodeTypes |-> DefaultStatus]
    /\ alert_thresholds = DefaultAlertThresholds

NextCollector ==
    \/ collect_comprehensive
    \/ collect_advanced
    \/ collect_basic
    \/ score_comprehensive

SpecCollector == InitCollector /\ [][NextCollector]_vars

\* The collector was given probe answers and has returned a status.
Collected == col_out # <<>> /\ "syncing" \in DOMAIN col_in
\* The collector got as far as asking the node for its sync status.
AskedSyncing ==
    /\ Collected
    /\ col_in.syncing.kind # "failed"
    /\ program = "comprehensive" => col_in.service = "active"

\* C13: every health score a scorer produces lies in [0, 100].
C13_HealthScoreRange ==
    col_out # <<>> => (col_out[1].health_score >= 0 /\ col_out[1].health_score <= 100)

\* C13 witness: a status whose penalties add up to more than 100 (inactive
\* service and 25 issues), scored 0.
C13_Witness ==
    /\ col_out # <<>>
    /\ "issues" \in DOMAIN col_in
    /\ col_in.service_status # "active"
    /\ Len(col_in.issues) * 5 > 100
    /\ col_out[1].health_score = 0

\* C14: every sync_progress a collector produces lies in [0, 100], also when
\* the node reports current_block > highest_block.
C14_SyncProgressRange ==
    (Collected /\ col_out[1].node.sync_progress # NoProgress) =>
        (col_out[1].node.sync_progress >= 0 /\ col_out[1].node.sync_progress <= 100)

\* C15: when eth_syncing answers false, the collected status has
\* sync_progress = 100 whatever highest_block is and whatever the follow-up
\* block-number query answers (0 or a failure included).
C15_FullySyncedIs100 ==
    (AskedSyncing /\ col_in.syncing.kind = "false") =>
        col_out[1].node.sync_progress = 100

\* C16: when the node reports that it is syncing with highest_block = 0, the
\* collected sync_progress is 0 (or absent); it is never 100 and the node is
\* not presented as fully synced.
C16_NoDataIsNotSynced ==
    (AskedSyncing /\ col_in.syncing.kind = "syncing" /\ col_in.syncing.highest = 0) =>
        /\ col_out[1].node.sync_progress \in {0, NoProgress}
        /\ program = "comprehensive" => col_out[1].node.sync_status # "fully_synced"

\* Scenario C on the collected node: service active, RPC responsive,
\* sync_progress = 100, peers = 30, cpu and memory under the ceilings.
ScenarioC ==
    /\ Collected
    /\ col_in.resources.cpu <= 50 /\ col_in.resources.mem <= 8
    /\ col_out[1].node.sync_progress = 100
    /\ IF program = "comprehensive"
       THEN /\ col_out[1].node.service_status = "active"
            /\ col_out[1].node.sync_status = "fully_synced"
            /\ col_out[1].node.peer_count = 30
       ELSE /\ col_out[1].node.status = "running"
            /\ col_out[1].node.rpc_responsive
            /\ col_out[1].node.peers = 30

\* C17: in scenario C (cpu and memory anywhere under the ceilings, 0
\* included) the health score is 100.
C17_ScenarioCScores100 ==
    ScenarioC => col_out[1].health_score = 100

\* C28: a collection in which a probe failed (the service is not active, or
\* the RPC endpoint does not answer the first request) returns a status that
\* names the failure in its issue list, with no block data and no progress.
C28_ProbeFailureHasIssue ==
    (Collected /\ program \in {"comprehensive", "advanced"}) =>
        LET node == col_out[1].node
            issues == col_out[1].issues
            rpc_asked == program = "advanced" \/ col_in.service = "active"
        IN  /\ col_in.service # "active" =>
                   \E i \in issues : i \in {"Service not running", "Service is not running"}
            /\ (rpc_asked /\ col_in.syncing.kind = "failed") =>
                   /\ IF program = "advanced"
                      THEN "RPC endpoint not responding" \in issues
                      ELSE issues # {}
                   /\ node.current_block <= 0
                   /\ node.sync_progress <= 0

(***************************************************************************)
(* The analysis specification and its claims                               *)
(***************************************************************************)
InitAnalysis ==
    /\ InitBase
    /\ program = "comprehensive"
    /\ tolerance_blocks \in ToleranceValues
    /\ local_hash = AgreeingChain
    /\ ref_hash = AgreeingChain
    /\ col_in = IdleProbe
    /\ an_statuses \in [NodeTypes -> SnapshotStatuses]
    /\ alert_thresholds \in AlertThresholdShapes

NextAnalysis ==
    \/ \E r \in ReferenceValues : analyze_snapshots(r)
    \/ analyze_again
    \/ AnalysisTick
    \/ \E arg \in ThresholdArgs : call_check_alerts(arg)

SpecAnalysis == InitAnalysis /\ [][NextAnalysis]_vars

\* The first analysis returned a verdict.
Analyzed == reports # <<>> /\ ~IsError(reports[1].report)
\* Number of alerts of check_alerts with the given severity, node and subject.
CountAlerts(type, node, kind) ==
    Cardinality({i \in 1..Len(alerts_out[1].alerts) :
                    alerts_out[1].alerts[i] = Alert(type, node, kind)})

\* C18: scenario B: nodes at blocks 100 and 105 with tolerance 4 give
\* consistent = false with the node at 100 lagging; and whenever the verdict
\* is inconsistent with a divergence of at most 20 blocks, check_alerts
\* returns a divergence alert of severity WARNING.
C18_ScenarioBWarning ==
    Analyzed =>
      LET rep == reports[1].report IN
        /\ ( /\ rep.summary.tolerance_blocks = 4
             /\ {rep.nodes[n].current_block : n \in DOMAIN rep.nodes} = {100, 105} ) =>
               /\ ~rep.summary.consistent
               /\ \A n \in DOMAIN rep.nodes :
                     rep.nodes[n].current_block = 100 => rep.nodes[n].lagging
        /\ ( /\ alerts_out # <<>>
             /\ ~rep.summary.consistent
             /\ rep.summary.block_difference <= 20 ) =>
               CountAlerts("WARNING", "", "divergence") = 1

\* C19: for a report with a verdict, check_alerts returns exactly one
\* CRITICAL divergence alert when the divergence is > 50 and exactly one
\* WARNING when it is in (20, 50]; for every node exactly one CRITICAL health
\* alert when its score is < 30, exactly one WARNING when it is in [30, 50)
\* and none when it is >= 50; never both severities for one condition.
C19_SeverityRules ==
    (Analyzed /\ alerts_out # <<>>) =>
      LET rep == reports[1].report
          div == rep.summary.block_difference
      IN
        /\ div > 50 =>
             /\ CountAlerts("CRITICAL", "", "divergence") = 1
             /\ CountAlerts("WARNING", "", "divergence") = 0
        /\ (div > 20 /\ div <= 50) =>
             /\ CountAlerts("WARNING", "", "divergence") = 1
             /\ CountAlerts("CRITICAL", "", "divergence") = 0
        /\ \A n \in DOMAIN rep.nodes :
             LET h == rep.nodes[n].health_score IN
               /\ h < 30 => /\ CountAlerts("CRITICAL", n, "health") = 1
                            /\ CountAlerts("WARNING", n, "health") = 0
               /\ (h >= 30 /\ h < 50) => /\ CountAlerts("WARNING", n, "health") = 1
                                         /\ CountAlerts("CRITICAL", n, "health") = 0
               /\ h >= 50 => /\ CountAlerts("WARNING", n, "health") = 0
                             /\ CountAlerts("CRITICAL", n, "health") = 0

\* C29: check_alerts called with the name of a sensitivity tier completes
\* without error, and with that tier's settings every node whose peer count
\* is below min_peers, and every node whose response time is above
\* max_response_time, gets a WARNING alert.
C29_TierThresholdsApplied ==
    (alerts_out # <<>> /\ alerts_out[1].threshold.kind = "tier") =>
        /\ ~alerts_out[1].raised
        /\ Analyzed =>
             LET th == TierThresholds(alerts_out[1].threshold.tier) IN
             \A n \in DOMAIN reports[1].report.nodes :
                LET nd == reports[1].report.nodes[n] IN
                /\ nd.peer_count < th.min_peers => CountAlerts("WARNING", n, "peers") = 1
                /\ nd.response_time > th.max_response_time =>
                       CountAlerts("WARNING", n, "response_time") = 1

\* C20: a second analysis of the same snapshot set returns a report equal
\* to the first in every field.
C20_AnalysisIdempotent ==
    Len(reports) = 2 => reports[2] = reports[1]

\* ---- single reference lookups ----
\* The height whose reference hash is looked up, and the hashes the
\* reference can serve for it ("" = none).
LookupHeight == MaxHeight - 1
LookupHashes == BlockHashes \cup {""}

\* Comprehensive verifier, get_reference_block_number: what one source
\* answers: the request raises, or it answers with an HTTP status and
\* (status 200) a result field holding a block number.
UrlAnswers ==
    {[raises |-> TRUE, status |-> 0, result |-> 0],
     [raises |-> FALSE, status |-> 500, result |-> 0],
     [raises |-> FALSE, status |-> 200, result |-> 0],
     [raises |-> FALSE, status |-> 200, result |-> 100]}

\* The source list the comprehensive verifier builds for a network.
ReferenceNetworks == {"mainnet", "sepolia", "holesky", "goerli"}
reference_apis == {"mainnet", "sepolia", "holesky"}
SourceUrls(network) ==
    IF network = "mainnet" THEN <<"etherscan", "blockpi", "ankr">>
    ELSE IF network = "sepolia" THEN <<"etherscan-sepolia", "blockpi-sepolia", "sepolia.org">>
    ELSE <<>>

\* The loop `for url in sources` from index i on: a status 200 answer is
\* returned as it is, an exception or another status moves on to the next url.
RECURSIVE TryUrls(_, _, _)
TryUrls(i, sources, answers) ==
    IF i > Len(sources) THEN 0
    ELSE IF answers[i].raises THEN TryUrls(i + 1, sources, answers)
    ELSE IF answers[i].status = 200 THEN answers[i].result
    ELSE TryUrls(i + 1, sources, answers)

\* Comprehensive verifier, get_reference_block_number(network).
comp_get_reference_block_number(network, answers) ==
    IF network \notin reference_apis THEN 0
    ELSE TryUrls(1, SourceUrls(network), answers)

\* The outcome record of a lookup: what it returned, whether the cache
\* answered, what each source answers at the time of the call (outcomes, in
\* source order, 0 = no usable answer; ref_hash for the one source of
\* hashes) and what the same lookup returns at that time with an empty cache.
lookup_block_number ==
    /\ program = "integrity"
    /\ LET r == get_reference_block_number(cache, ref_sources, now)
       IN  /\ cache' = r.cache
           /\ lookup_out' = <<[fn |-> "block_number", height |-> 0,
                               hit |-> CacheFresh(cache.reference_block, now),
                               block |-> r.block, hash |-> "",
                               outcomes |-> <<IF ref_sources.etherscan_raises THEN 0
                                              ELSE ref_sources.etherscan,
                                              ref_sources.beaconchain, 0>>,
                               ref_hash |-> "",
                               fresh_block |->
                                   get_reference_block_number(EmptyCache, ref_sources,
                                                              now).block,
                               fresh_hash |-> ""]>>
    /\ UNCHANGED <<local_hash, ref_hash, integrity, reorg, ref_sources>>
    /\ UNCHANGED <<cfgVars, collVars, analysisVars, last_call, histVars, compVars, advVars, now,
                   alertVars, schedVars>>

lookup_block_hash(h) ==
    /\ program = "integrity"
    /\ LET r == get_reference_block_hash(cache, ref_hash, h, now)
       IN  /\ cache' = r.cache
           /\ lookup_out' = <<[fn |-> "block_hash", height |-> h,
                               hit |-> CacheFresh(cache.block_hash[h], now),
                               block |-> 0, hash |-> r.hash,
                               outcomes |-> <<>>,
                               ref_hash |-> ref_hash[h],
                               fresh_block |-> 0,
                               fresh_hash |->
                                   get_reference_block_hash(EmptyCache, ref_hash, h,
                                                            now).hash]>>
    /\ UNCHANGED <<local_hash, ref_hash, integrity, reorg, ref_sources>>
    /\ UNCHANGED <<cfgVars, collVars, analysisVars, last_call, histVars, compVars, advVars, now,
                   alertVars, schedVars>>

comp_lookup_block_number(network, answers) ==
    /\ program = "comprehensive"
    /\ lookup_out' = <<[fn |-> "block_number", height |-> 0, hit |-> FALSE,
                        block |-> comp_get_reference_block_number(network, answers),
                        hash |-> "",
                        outcomes |-> [i \in 1..Len(SourceUrls(network)) |->
                                         IF ~answers[i].raises /\ answers[i].status = 200
                                         THEN answers[i].result ELSE 0],
                        ref_hash |-> "",
                        fresh_block |-> comp_get_reference_block_number(network, answers),
                        fresh_hash |-> ""]>>
    /\ UNCHANGED <<integVars, ref_sources>>
    /\ UNCHANGED <<cfgVars, collVars, analysisVars, last_call, histVars, compVars, advVars, now,
                   alertVars, schedVars>>

\* The reference chain moves on: its sources answer something else, or it
\* serves another hash for the height (a reorganisation of the reference).
ReferenceAdvances(src) ==
    /\ program = "integrity"
    /\ src # ref_sources
    /\ ref_sources' = src
    /\ UNCHANGED <<integVars, lookup_out>>
    /\ UNCHANGED <<cfgVars, collVars, analysisVars, last_call, histVars, compVars, advVars, now,
                   alertVars, schedVars>>

ReferenceReorganises(hash) ==
    /\ program = "integrity"
    /\ hash # ref_hash[LookupHeight]
    /\ ref_hash' = [ref_hash EXCEPT ![LookupHeight] = hash]
    /\ UNCHANGED <<local_hash, cache, integrity, reorg, lookupVars>>
    /\ UNCHANGED <<cfgVars, collVars, analysisVars, last_call, histVars, compVars, advVars, now,
                   alertVars, schedVars>>

LookupTickSeconds == 150
LookupTick ==
    /\ program = "integrity"
    /\ now + LookupTickSeconds <= MaxLookupTime
    /\ now' = now + LookupTickSeconds
    /\ UNCHANGED <<cfgVars, unitVars, compVars, advVars, integVars, alertVars, schedVars>>

(***************************************************************************)
(* The integrity specification and its claims                              *)
(***************************************************************************)
InitIntegrity ==
    /\ InitBase
    /\ program = "integrity"
    /\ tolerance_blocks = 5
    /\ \E ch \in ChainPairs : local_hash = ch.local /\ ref_hash = ch.ref
    /\ IdleUnits

NextIntegrity ==
    \/ \E level \in IntegrityLevels, src \in SourceAnswers,
          lb \in LocalBlockValues, blk \in BlockAnswers :
          call_verify_chain_integrity(level, src, lb, blk)
    \/ verify_chain_integrity_caught
    \/ \E cb \in ScanStarts : call_detect_reorganizations(cb)

SpecIntegrity == InitIntegrity /\ [][NextIntegrity]_vars

\* The distances from the current height that lie inside the scan window of
\* depth max_check_depth.
WindowDistances(current_block) == {i \in 1..max_check_depth : current_block - i >= 0}
\* The distances inside the window at which both hashes exist and differ.
Mismatches(current_block) ==
    {i \in WindowDistances(current_block) :
        /\ local_hash[current_block - i] # ""
        /\ ref_hash[current_block - i] # ""
        /\ local_hash[current_block - i] # ref_hash[current_block - i]}
AllMatch(current_block) ==
    \A i \in WindowDistances(current_block) :
        local_hash[current_block - i] = ref_hash[current_block - i]
ScanRan == integrity # <<>> /\ integrity[1].level = "comprehensive"
                            /\ integrity[1].res.local_block > 0

\* C5: when local and reference hash are equal at every height of the scan
\* window, detect_reorganizations reports reorg_detected = false and
\* reorg_depth = 0; and in every result reorg_detected holds exactly when
\* reorg_depth > 0.
C5_NoMismatchNoReorg ==
    /\ reorg # <<>> =>
         /\ AllMatch(reorg[1].current_block) =>
               ~reorg[1].reorg_detected /\ reorg[1].reorg_depth = 0
         /\ reorg[1].reorg_detected <=> (reorg[1].reorg_depth > 0)
    /\ integrity # <<>> =>
         /\ (ScanRan /\ AllMatch(integrity[1].res.local_block)) =>
               ~integrity[1].res.reorg_detected /\ integrity[1].res.reorg_depth = 0
         /\ integrity[1].res.reorg_detected <=> (integrity[1].res.reorg_depth > 0)

\* C5 witness: a scan from a height above the window depth over a fully
\* matching window, while the chains differ somewhere outside it.
C5_Witness ==
    /\ reorg # <<>>
    /\ reorg[1].current_block > max_check_depth
    /\ AllMatch(reorg[1].current_block)
    /\ \E h \in Heights : local_hash[h] # ref_hash[h]
    /\ ~reorg[1].reorg_detected

\* C6: reorg_detected holds exactly when some height within distance 10 of
\* the current height mismatches, and reorg_depth is the distance of the
\* nearest mismatched height (a mismatch at distance exactly 10 is found).
C6_ScanWindowDepth10 ==
    reorg # <<>> =>
        LET mm == Mismatches(reorg[1].current_block) IN
          /\ reorg[1].reorg_detected <=> (mm # {})
          /\ reorg[1].reorg_depth = IF mm = {} THEN 0 ELSE SetMin(mm)

\* C7: the confidence score of every result of verify_chain_integrity lies
\* in 0..100.
C7_ConfidenceBounded ==
    integrity # <<>> =>
        /\ integrity[1].res.confidence_score >= 0
        /\ integrity[1].res.confidence_score <= 100

\* C38: whenever both the reference and the local block number were
\* obtained, is_valid holds exactly when reference_block - local_block <= 20;
\* a hash mismatch, a failed structure check, a malformed state root or a
\* detected reorganization does not change it.
C38_ValidByBlockDiffOnly ==
    (/\ integrity # <<>>
     /\ integrity[1].res.reference_block > 0
     /\ integrity[1].res.local_block > 0) =>
        (integrity[1].res.is_valid
            <=> (integrity[1].res.reference_block - integrity[1].res.local_block <= 20))

\* C38 witness: a valid result of a comprehensive verification in which the
\* hashes mismatch, structure check and state root fail and a reorganization
\* was detected.
C38_Witness ==
    /\ ScanRan
    /\ integrity[1].res.reference_block > 0
    /\ integrity[1].res.is_valid
    /\ \E i \in 1..Len(integrity[1].res.issues) :
          integrity[1].res.issues[i] = "Block hash mismatch"
    /\ ~integrity[1].res.chain_work_valid
    /\ ~integrity[1].res.state_root_valid
    /\ integrity[1].res.reorg_detected

\* C39: verify_chain_integrity returns a result on every path (no reference
\* block, no local block, an exception in a step, which its except branch
\* turns into a result), and every result with is_valid = false carries at
\* least one issue.
C39_InvalidHasIssue ==
    integrity # <<>> =>
        (~integrity[1].res.is_valid => Len(integrity[1].res.issues) >= 1)

\* C39 witness: the invalid result of a verification whose node is more than
\* 20 blocks behind the reference.
C39_Witness ==
    /\ integrity # <<>>
    /\ ~integrity[1].res.is_valid
    /\ integrity[1].res.local_block > 0
    /\ integrity[1].res.block_diff > 20
    /\ Len(integrity[1].res.issues) >= 1

\* The primary verdict of a report: the consistent flag, the divergence and
\* every node's lagging flag.
Verdict(rep) ==
    [consistent |-> rep.summary.consistent,
     divergence |-> rep.summary.block_difference,
     lagging |-> [n \in DOMAIN rep.nodes |-> rep.nodes[n].lagging]]

\* C23: the primary verdict of a report (consistent, divergence, lagging
\* flags) is the verdict the same statuses and tolerance give with every
\* other answer of the external reference, available or not.
C23_VerdictIgnoresReference ==
    Analyzed =>
        \A r \in ReferenceValues :
            LET other == ConsistencyReport(an_statuses, tolerance_blocks, r) IN
            /\ ~IsError(other)
            /\ Verdict(reports[1].report) = Verdict(other)

\* An inconsistent verdict with a lagging node was reported next to a
\* reference more than 10 blocks ahead.
C23_Witness ==
    /\ Analyzed
    /\ reports[1].report.reference # <<>>
    /\ ~reports[1].report.reference[1].reference_consistent
    /\ ~reports[1].report.summary.consistent
    /\ \E n \in NodeTypes : reports[1].report.nodes[n].lagging

(***************************************************************************)
(* The reference lookup specification and its claims                       *)
(***************************************************************************)
InitReference ==
    /\ InitBase
    /\ program \in {"integrity", "comprehensive"}
    /\ tolerance_blocks = 5
    /\ local_hash = AgreeingChain
    /\ ref_hash = AgreeingChain
    /\ IdleUnits

NextReference ==
    \/ lookup_block_number
    \/ lookup_block_hash(LookupHeight)
    \/ \E network \in ReferenceNetworks, answers \in [1..3 -> UrlAnswers] :
          comp_lookup_block_number(network, answers)
    \/ \E src \in SourceAnswers : ReferenceAdvances(src)
    \/ \E hash \in LookupHashes : ReferenceReorganises(hash)
    \/ LookupTick

SpecReference == InitReference /\ [][NextReference]_vars

\* C21: a reference lookup answered from the cache (inside the TTL window)
\* returns exactly what a fresh lookup of the reference sources returns at
\* that moment, also when the reference has advanced or changed since the
\* entry was stored.
C21_CacheHitIsFresh ==
    (lookup_out # <<>> /\ lookup_out[1].hit) =>
        /\ lookup_out[1].block = lookup_out[1].fresh_block
        /\ lookup_out[1].hash = lookup_out[1].fresh_hash

\* The first usable (non-zero) answer in source order, 0 when there is none.
RECURSIVE FirstUsable(_, _)
FirstUsable(i, outcomes) ==
    IF i > Len(outcomes) THEN 0
    ELSE IF outcomes[i] > 0 THEN outcomes[i]
    ELSE FirstUsable(i + 1, outcomes)

\* C22: a reference lookup that asks the sources returns the answer of the
\* first source, in their order, that answers something usable; a source
\* that fails, raises or answers zero/empty is passed over, and the lookup
\* fails (0 / no hash) only if every source did.
C22_FirstSuccessWins ==
    (lookup_out # <<>> /\ ~lookup_out[1].hit) =>
        /\ lookup_out[1].fn = "block_number" =>
               lookup_out[1].block = FirstUsable(1, lookup_out[1].outcomes)
        /\ lookup_out[1].fn = "block_hash" =>
               lookup_out[1].hash = lookup_out[1].ref_hash

(***************************************************************************)
(* The alert specification and its claims                                  *)
(***************************************************************************)
InitAlert ==
    /\ InitBase
    /\ program \in {"advanced", "comprehensive", "realtime"}
    /\ tolerance_blocks = 5
    /\ local_hash = AgreeingChain
    /\ ref_hash = AgreeingChain
    /\ IdleUnits

NextAlert ==
    \/ \E ty \in AlertTypeValues, m \in AlertMessageValues, sev \in SeverityValues,
          n \in AlertNodeValues, ok \in BOOLEAN :
          trigger_alert(ty, m, sev, n, ok, DefaultDispatch)
    \/ \E alerts \in AlertLists, net \in Networks : handle_alerts(alerts, net)
    \/ \E alerts \in AlertLists : realtime_handle_alerts(alerts)
    \/ \E d \in AlertTicks : AlertTick(d)

SpecAlert == InitAlert /\ [][NextAlert]_vars

SameAlert(a, b) == a.type = b.type /\ a.node = b.node /\ a.message = b.message

\* Two entries of a log with the same (type, node, message) lie at least
\* alert_cooldown seconds apart.
Deduplicated(log) ==
    \A i, j \in 1..Len(log) :
        (i < j /\ SameAlert(log[i], log[j])) => log[j].at - log[i].at >= alert_cooldown

\* C1: on every alert path (trigger_alert, handle_alerts,
\* RealTimeMonitor._handle_alerts) two alerts with the same (type, node,
\* message) are both in the alert log only if the later one was fired at
\* least alert_cooldown seconds after the earlier one.
C1_AlertDedup == Deduplicated(alerts_db) /\ Deduplicated(alert_history)

\* The log now begins with the log as it was.
Extends(log_after, log_before) ==
    /\ Len(log_after) >= Len(log_before)
    /\ SubSeq(log_after, 1, Len(log_before)) = log_before

\* C33: the alert log is append-only: whatever step is taken, every alert
\* recorded earlier is still in the log, unchanged and at the same position,
\* and the log is no shorter than before (alert_history of the comprehensive
\* verifier and of the real-time monitor, the alerts table of the advanced
\* verifier).
C33_AlertLogAppendOnly ==
    [][Extends(alert_history', alert_history) /\ Extends(alerts_db', alerts_db)]_vars

\* C33 witness: a log that was appended to in two different iterations.
C33_Witness ==
    /\ Len(alert_history) >= 3
    /\ alert_history[1].at < alert_history[Len(alert_history)].at

\* The cooldown test of trigger_alert finds the key of the call inside the
\* window: the call is a suppressed one.
KeyInWindow(alert_type, node_name, message) ==
    LET key == AlertKey(alert_type, node_name, message) IN
    /\ key \in DOMAIN alert_cooldowns
    /\ now - alert_cooldowns[key] < alert_cooldown

\* C26: a trigger_alert call whose key fired within the cooldown window
\* changes nothing: the alert log, the notifications handed out and the
\* cooldown table (so also the time the window started) stay as they were.
C26_SuppressedChangesNothing ==
    [][\A ty \in AlertTypeValues, m \in AlertMessageValues, sev \in SeverityValues,
          n \in AlertNodeValues, ok \in BOOLEAN :
          (trigger_alert(ty, m, sev, n, ok, DefaultDispatch) /\ KeyInWindow(ty, n, m))
              => UNCHANGED <<alert_cooldowns, alerts_db, notified, alert_history,
                             alert_counts>>]_vars

\* A suppressed call was made later than the alert that opened the window.
C26_Witness ==
    /\ last_call # <<>>
    /\ last_call[1].suppressed
    /\ \E i \in 1..Len(notified) :
          /\ notified[i].type = last_call[1].type
          /\ notified[i].node = last_call[1].node
          /\ notified[i].at < last_call[1].at
          /\ alert_cooldowns[AlertKey(notified[i].type, notified[i].node,
                                      notified[i].message)] = notified[i].at

\* C37: trigger_alert writes the key's time into the cooldown table whether
\* or not the alert is then stored, and nothing takes it back: a call outside
\* the window whose INSERT fails leaves the key in the table at the time of
\* the call and the alert log as it was, and the same alert fired again
\* inside the window is suppressed although the log has no entry for it.
C37_CooldownSurvivesStoreFailure ==
    [][\A ty \in AlertTypeValues, m \in AlertMessageValues, sev \in SeverityValues,
          n \in AlertNodeValues :
          /\ (trigger_alert(ty, m, sev, n, FALSE, DefaultDispatch) /\ ~KeyInWindow(ty, n, m))
                => /\ AlertKey(ty, n, m) \in DOMAIN alert_cooldowns'
                   /\ alert_cooldowns'[AlertKey(ty, n, m)] = now
                   /\ alerts_db' = alerts_db
          /\ \A ok \in BOOLEAN :
                (/\ trigger_alert(ty, m, sev, n, ok, DefaultDispatch)
                 /\ last_call # <<>> /\ last_call[1].store_failed
                 /\ last_call[1].type = ty /\ last_call[1].node = n
                 /\ last_call[1].message = m
                 /\ now - last_call[1].at < alert_cooldown)
                => (last_call'[1].suppressed /\ alerts_db' = alerts_db)]_vars

\* C37 witness: an alert was suppressed whose key is in the cooldown table
\* and which has no entry in the alert log, because the INSERT of the call
\* that opened the window failed.
C37_Witness ==
    /\ last_call # <<>>
    /\ last_call[1].suppressed
    /\ AlertKey(last_call[1].type, last_call[1].node, last_call[1].message)
           \in DOMAIN alert_cooldowns
    /\ \E i \in 1..Len(notified) :
          /\ SameAlert(notified[i], last_call[1])
          /\ last_call[1].at - notified[i].at < alert_cooldown
    /\ \A i \in 1..Len(alerts_db) : ~SameAlert(alerts_db[i], last_call[1])

\* C27: a suppressed alert was suppressed by an alert with the same type,
\* the same node and the same message that was recorded less than
\* alert_cooldown seconds before it; alerts that differ in one of the three
\* never suppress one another.
C27_KeyIsTheTriple ==
    (last_call # <<>> /\ last_call[1].suppressed) =>
        \E i \in 1..Len(notified) :
            /\ SameAlert(notified[i], last_call[1])
            /\ last_call[1].at - notified[i].at < alert_cooldown

(***************************************************************************)
(* The dispatch specification and its claims                               *)
(***************************************************************************)
InitDispatch ==
    /\ InitBase
    /\ program = "advanced"
    /\ tolerance_blocks = 5
    /\ local_hash = AgreeingChain
    /\ ref_hash = AgreeingChain
    /\ IdleUnits

NextDispatch ==
    \/ \E ok \in BOOLEAN, dispatch \in DispatchCases :
          trigger_alert("A", "M", "warning", "C", ok, dispatch)
    \/ \E d \in AlertTicks : AlertTick(d)

SpecDispatch == InitDispatch /\ [][NextDispatch]_vars

\* C25: a trigger_alert call that records its alert returns normally, hands
\* the alert to every configured channel, and every failure (of the INSERT,
\* of a channel) is written to the error log.
C25_DispatchFailureContained ==
    (last_call # <<>> /\ ~last_call[1].suppressed) =>
        /\ last_call[1].returned
        /\ last_call[1].attempted = last_call[1].configured
        /\ last_call[1].store_failed => last_call[1].store_logged
        /\ last_call[1].failed \subseteq last_call[1].logged

(***************************************************************************)
(* The scheduler specification and its claims                              *)
(***************************************************************************)
\* The configuration file of the verifier: <<>> when there is none (or it
\* cannot be read), else the tolerance_blocks it sets.
ConfigFiles == {<<>>} \cup {<<[tolerance_blocks |-> v]>> : v \in {5, 0, -1}}

\* load_config: the default configuration, every attribute the file names
\* replaced by the file's value as it is.
load_config(config_file) ==
    IF config_file = <<>> THEN [tolerance_blocks |-> 5]
    ELSE [tolerance_blocks |-> config_file[1].tolerance_blocks]

\* RealTimeMonitor.__init__ builds the verifier from the configuration file;
\* the other loops take no tolerance from a file.
InitSched ==
    /\ InitBase
    /\ program \in LoopPrograms
    /\ \E config_file \in ConfigFiles :
          tolerance_blocks = IF program = "realtime"
                             THEN load_config(config_file).tolerance_blocks ELSE 5
    /\ local_hash = AgreeingChain
    /\ ref_hash = AgreeingChain
    /\ IdleUnits

NextSched ==
    \/ \E d \in DurationSeconds : StartMonitoring(d)
    \/ StopSignal
    \/ EndIteration
    \/ IterationError
    \/ Wake
    \/ SchedTick

SpecSched == InitSched /\ [][NextSched]_vars

\* C30: a configuration with a non-positive tolerance_blocks is rejected
\* before the first monitoring iteration: no iteration of the real-time
\* monitor has started while tolerance_blocks <= 0.
C30_InvalidConfigRejected ==
    (program = "realtime" /\ iteration > 0) => tolerance_blocks > 0

\* C8: once a stop signal was received or the session duration has expired,
\* no further iteration starts and the scheduler only moves towards STOPPED
\* (RUNNING -> SLEEPING -> STOPPED or RUNNING -> STOPPED), whether the event
\* happened while RUNNING or while SLEEPING; no transition leaves STOPPED.
C8_StopIsFinal ==
    [][ /\ (stop_seen # "none" \/ Expired) =>
             /\ iteration' = iteration
             /\ (sched_state' = "RUNNING" => sched_state = "RUNNING")
             /\ (sched_state = "SLEEPING" => sched_state' \in {"SLEEPING", "STOPPED"})
        /\ sched_state = "STOPPED" => sched_state' = "STOPPED" ]_vars

\* C8 witness: a session that reached STOPPED before its end time because a
\* stop signal arrived while it was sleeping.
C8_Witness ==
    /\ sched_state = "STOPPED"
    /\ stop_seen = "SLEEPING"
    /\ HasDeadline /\ now < end_time
    /\ iteration >= 1
    /\ ~crashed

\* C9: an error inside an iteration is logged, does not end the session, and
\* the sleep that follows the failed iteration is longer than the normal
\* interval.
C9_ErrorBackoff ==
    /\ ~crashed
    /\ iter_failed => errors_logged > 0
    /\ (sched_state = "SLEEPING" /\ iter_failed) => sleep_len > interval

SpecSchedLive ==
    /\ SpecSched
    /\ WF_vars(SchedTick)
    /\ WF_vars(EndIteration)
    /\ WF_vars(Wake)

\* C32: if time advances and every iteration returns, a session of the
\* real-time monitor started with a finite duration eventually is STOPPED with
\* its shutdown step run exactly once, whether or not a stop signal arrives
\* and whether or not iterations fail.
C32_SessionTerminates ==
    (program = "realtime" /\ sched_state = "RUNNING")
        ~> (sched_state = "STOPPED" /\ shutdowns = 1)

\* C32 witness: a session of the real-time monitor that no stop signal ever
\* reached, in which an iteration failed, STOPPED at its end time after one
\* shutdown step.
C32_Witness ==
    /\ program = "realtime"
    /\ sched_state = "STOPPED"
    /\ stop_seen = "none"
    /\ errors_logged > 0
    /\ now >= end_time
    /\ shutdowns = 1

(***************************************************************************)
(* Trailing histories and their claims                                     *)
(*   "realtime":  RealTimeMonitor._collect_performance_metrics             *)
(*   "dashboard": MEVDashboard.monitoring_loop                             *)
(* A snapshot is named by its ordinal: the n-th snapshot collected is n.   *)
(***************************************************************************)
MaxCollections == 102
\* Entries RealTimeMonitor.performance_history keeps.
history_limit == 100
\* MEVDashboard.history_window.
history_window == 100
\* What verify_cross_node_consistency handed to the collector.
ResultKinds == {"ok", "error", "no_nodes"}

\* lst[-n:]
LastN(lst, n) == IF Len(lst) > n THEN SubSeq(lst, Len(lst) - n + 1, Len(lst)) ELSE lst

\* _collect_performance_metrics: nothing for an error result or a result
\* without nodes; else a new metrics dict is appended and the list cut to its
\* last 100 entries.
collect_performance_metrics(kind) ==
    /\ program = "realtime"
    /\ collected < MaxCollections
    /\ IF kind = "ok"
       THEN /\ collected' = collected + 1
            /\ performance_history' =
                  LET appended == Append(performance_history, collected + 1) IN
                  IF Len(appended) > history_limit
                  THEN LastN(appended, history_limit) ELSE appended
       ELSE UNCHANGED <<performance_history, collected>>
    /\ UNCHANGED <<historical_data, heap>>
    /\ UNCHANGED <<cfgVars, collVars, analysisVars, lookupVars, last_call, compVars,
                   advVars, integVars, now, alertVars, schedVars>>

\* One iteration of MEVDashboard.monitoring_loop: the collectors write the new
\* values into self.metrics, the one DashboardMetrics object there is; then
\* self.metrics (the object, not a copy) is appended and the oldest entry
\* popped when the list is longer than history_window.
dashboard_iteration ==
    /\ program = "dashboard"
    /\ collected < MaxCollections
    /\ collected' = collected + 1
    /\ heap' = [heap EXCEPT ![MetricsObject] = collected + 1]
    /\ historical_data' =
          LET appended == Append(historical_data, MetricsObject) IN
          IF Len(appended) > history_window THEN Tail(appended) ELSE appended
    /\ UNCHANGED performance_history
    /\ UNCHANGED <<cfgVars, collVars, analysisVars, lookupVars, last_call, compVars,
                   advVars, integVars, now, alertVars, schedVars>>

InitHistory ==
    /\ InitBase
    /\ program \in {"realtime", "dashboard"}
    /\ tolerance_blocks = 5
    /\ local_hash = AgreeingChain
    /\ ref_hash = AgreeingChain
    /\ IdleUnits

NextHistory ==
    \/ \E kind \in ResultKinds : collect_performance_metrics(kind)
    \/ dashboard_iteration

SpecHistory == InitHistory /\ [][NextHistory]_vars

\* The snapshots a history shows to its reader.
Shown(history) == [i \in DOMAIN history |-> heap[history[i]]]
\* The history holds the last `limit` snapshots collected, oldest first.
MostRecent(history, limit) ==
    /\ Len(history) = Min(collected, limit)
    /\ \A i \in DOMAIN history : history[i] = collected - Len(history) + i

\* C34: after any number of iterations performance_history holds at most 100
\* entries and historical_data at most history_window, and the entries are
\* the most recently collected snapshots in the order of their collection.
C34_HistoryBounded ==
    /\ program = "realtime" =>
          /\ Len(performance_history) <= history_limit
          /\ MostRecent(performance_history, history_limit)
    /\ program = "dashboard" =>
          /\ Len(historical_data) <= history_window
          /\ MostRecent(Shown(historical_data), history_window)

====
